---- MODULE Spec2Model ----
(***************************************************************************)
(* Model of the investment analytics engine                                *)
(* (backend/src/training/investment_analytics.py) and of the model         *)
(* manager and the endpoints that read it (backend/src/api/main.py).       *)
(*                                                                         *)
(* Numbers.  The engine computes with Python numbers.  A number is         *)
(* modelled as an exact rational [n |-> numerator, d |-> denominator],     *)
(* d > 0, in lowest terms, so that two numbers are equal exactly when      *)
(* their records are equal.  Division by zero raises ZeroDivisionError,    *)
(* as Python's / does, and a power beyond the range of a float raises      *)
(* OverflowError, as Python's ** does.  The rounding of binary floating    *)
(* point is modelled where a number is formatted and, for                  *)
(* calculate_rental_yield, operation by operation on doubles               *)
(* (SpecInFloats); every other property below is one of exact arithmetic.  *)
(*                                                                         *)
(* Values.  A Python dict is a record, a list is a sequence, None is the   *)
(* empty tuple and a present optional value x is <<x>>.  A string that is  *)
(* built by formatting is the sequence of its pieces.                      *)
(***************************************************************************)
EXTENDS Integers, Sequences, FiniteSets, TLC

VARIABLES self, call, ret, threads, model_manager

vars == <<self, call, ret, threads, model_manager>>

----------------------------------------------------------------------------
(* Exact arithmetic *)

None == <<>>

Some(x) == <<x>>

Abs(x) == IF x < 0 THEN -x ELSE x

RECURSIVE GCD(_, _)
GCD(a, b) == IF b = 0 THEN a ELSE GCD(b, a % b)

\* The number n/d (d # 0) in lowest terms with a positive denominator.
R(n, d) ==
    LET g == GCD(Abs(n), Abs(d))
        s == IF d < 0 THEN -1 ELSE 1
    IN  [n |-> s * (n \div g), d |-> s * (d \div g)]

Num(i) == [n |-> i, d |-> 1]

Zero == Num(0)

\* x + y
RAdd(x, y) ==
    LET g == GCD(x.d, y.d)
    IN  R(x.n * (y.d \div g) + y.n * (x.d \div g), (x.d \div g) * y.d)

\* -x
RNeg(x) == [n |-> -(x.n), d |-> x.d]

\* x - y
RSub(x, y) == RAdd(x, RNeg(y))

\* x * y
RMul(x, y) ==
    LET g1 == GCD(Abs(x.n), y.d)
        g2 == GCD(Abs(y.n), x.d)
    IN  R((x.n \div g1) * (y.n \div g2), (x.d \div g2) * (y.d \div g1))

\* x / y, for y # 0 (the callers raise ZeroDivisionError when y = 0)
RDiv(x, y) == RMul(x, R(y.d, y.n))

\* x ** k for an integer k >= 0
RECURSIVE RPow(_, _)
RPow(x, k) == IF k = 0 THEN Num(1) ELSE RMul(x, RPow(x, k - 1))

\* x > y
RGt(x, y) == RSub(x, y).n > 0

\* x <= y
RLe(x, y) == ~RGt(x, y)

\* x < y
RLt(x, y) == RGt(y, x)

\* The largest integer <= x
RFloor(x) == x.n \div x.d

----------------------------------------------------------------------------
(* Exceptions *)

ZeroDivisionError == [exception |-> "ZeroDivisionError"]

Raised(r) == "exception" \in DOMAIN r

NoResult == [returned |-> "None"]

----------------------------------------------------------------------------
(* str.format with the format spec .1f *)

DigitStr == <<"0", "1", "2", "3", "4", "5", "6", "7", "8", "9">>

\* The decimal digits of the integer n >= 0, most significant first.
RECURSIVE IntToStr(_)
IntToStr(n) ==
    IF n < 10 THEN <<DigitStr[n + 1]>>
    ELSE Append(IntToStr(n \div 10), DigitStr[(n % 10) + 1])

RECURSIVE IsPowerOfTwo(_)
IsPowerOfTwo(k) ==
    IF k = 1 THEN TRUE
    ELSE IF k % 2 = 1 THEN FALSE
    ELSE IsPowerOfTwo(k \div 2)

\* The largest k with 2^k <= q, for an integer q >= 1.
RECURSIVE IntLog2(_)
IntLog2(q) == IF q < 2 THEN 0 ELSE 1 + IntLog2(q \div 2)

\* The smallest k with n * 2^k >= d, for integers 0 < n < d.
RECURSIVE ShiftsToReach(_, _)
ShiftsToReach(n, d) == IF n >= d THEN 0 ELSE 1 + ShiftsToReach(2 * n, d)

\* floor(log2(x)) for x > 0: the exponent of the float that holds x.
FloorLog2(x) ==
    IF x.n >= x.d THEN IntLog2(x.n \div x.d) ELSE -ShiftsToReach(x.n, x.d)

\* The binary digits of 1/5, 2/5, 3/5 and 4/5, which repeat every four.
FifthsBits == <<<<0, 0, 1, 1>>, <<0, 1, 1, 0>>, <<1, 0, 0, 1>>, <<1, 1, 0, 0>>>>

\* Whether the float nearest to x lies above x, for x = m/20 > 0 in lowest
\* terms (a tie of .1f that no float holds exactly).  The float keeps 53
\* significant bits of x and is rounded up exactly when the first bit it
\* drops is 1; that bit is digit 51 - floor(log2(x)) of (m mod 5)/5.
FloatLiesAbove(x) ==
    LET i == 51 - FloorLog2(x)
    IN  FifthsBits[x.n % 5][((i - 1) % 4) + 1] = 1

\* The number of tenths that {x:.1f} prints for x >= 0, as a one-element set.
\* The float is rounded to the nearest tenth.  A tie is exact only when x is
\* a binary fraction, and then goes to the even digit; for any other x on a
\* tie the float that holds x lies just below or just above it, and decides.
FormatTenths(x) ==
    LET t    == RMul(Num(10), x)
        lo   == RFloor(t)
        frac == RSub(t, Num(lo))
        half == R(1, 2)
    IN  IF RLt(frac, half) THEN {lo}
        ELSE IF RGt(frac, half) THEN {lo + 1}
        ELSE IF IsPowerOfTwo(x.d) THEN {IF lo % 2 = 0 THEN lo ELSE lo + 1}
        ELSE IF FloatLiesAbove(x) THEN {lo + 1}
        ELSE {lo}

\* The text of a number of tenths: "12.5" is <<"1", "2", ".", "5">>.
TenthsToStr(k) == IntToStr(k \div 10) \o <<".", DigitStr[(k % 10) + 1]>>

----------------------------------------------------------------------------
(* The range of a float.  x ** k on Python floats raises OverflowError     *)
(* when the power lies beyond the largest double, 2^1024; sums,           *)
(* differences and products do not raise.  Whether a power reaches        *)
(* 2^1024 is decided on a lower estimate m x 2^e of it, with m kept to    *)
(* 15 bits and every product rounded down.                                 *)

OverflowError == [exception |-> "OverflowError"]

\* sys.float_info.max_exp: a double is below 2^1024.
FloatMaxExp == 1024

\* The product of two estimates, 2^14 <= m < 2^15, rounded down.
ScaledMul(a, b) ==
    LET p == a.m * b.m
    IN  IF p >= 2^29 THEN [m |-> p \div 2^15, e |-> a.e + b.e + 15]
        ELSE [m |-> p \div 2^14, e |-> a.e + b.e + 14]

\* The estimate of a rational x > 0, rounded down.
ScaledOf(x) ==
    LET k == FloorLog2(x)
    IN  [m |-> IF k >= 0 THEN (x.n * 2^14) \div (x.d * 2^k)
               ELSE (x.n * 2^(14 - k)) \div x.d,
         e |-> k - 14]

\* The estimate of b^k, by squaring.
RECURSIVE ScaledPow(_, _)
ScaledPow(b, k) ==
    IF k = 0 THEN [m |-> 2^14, e |-> -14]
    ELSE IF k % 2 = 1 THEN ScaledMul(b, ScaledPow(b, k - 1))
    ELSE LET h == ScaledPow(b, k \div 2) IN ScaledMul(h, h)

\* x ** k raises OverflowError (x a float above 1, k a positive int).  The
\* estimate is within two binary orders of the power for k up to 20000, so
\* the answer is that of Python for every power not that close to 2^1024.
PowOverflows(x, k) ==
    /\ k > 0
    /\ RGt(x, Num(1))
    /\ ScaledPow(ScaledOf(x), k).e + 14 >= FloatMaxExp

----------------------------------------------------------------------------
(* Floating point.  Python's float is an IEEE 754 double: a sign, a         *)
(* significand of 53 bits and an exponent, and every sum, difference,      *)
(* product and quotient is the exact result rounded to the nearest double, *)
(* to the even significand on a tie.  A double is modelled as              *)
(* [sign, m, e] with value (-1)^sign * m * 2^e, where m is zero or has     *)
(* exactly 53 bits.  The significands and the exact results before         *)
(* rounding are naturals beyond the integers of the checker, kept as       *)
(* sequences of limbs of 15 bits, least significant first.  Exponents of   *)
(* the values below stay far inside the range of a double, so overflow,    *)
(* underflow and subnormal numbers are not modelled here.                  *)

LimbBits == 15

RECURSIVE Pow2(_)
Pow2(k) == IF k = 0 THEN 1 ELSE 2 * Pow2(k - 1)

Base == Pow2(LimbBits)

SignificandBits == 53

RECURSIVE BigTrim(_)
BigTrim(a) ==
    IF a = <<>> \/ a[Len(a)] # 0 THEN a ELSE BigTrim(SubSeq(a, 1, Len(a) - 1))

RECURSIVE BigOfNat(_)
BigOfNat(n) == IF n = 0 THEN <<>> ELSE <<n % Base>> \o BigOfNat(n \div Base)

Limb(a, i) == IF i <= Len(a) THEN a[i] ELSE 0

RECURSIVE AddFrom(_, _, _, _)
AddFrom(a, b, i, carry) ==
    IF i > Len(a) /\ i > Len(b)
    THEN IF carry = 0 THEN <<>> ELSE <<carry>>
    ELSE LET t == Limb(a, i) + Limb(b, i) + carry
         IN  <<t % Base>> \o AddFrom(a, b, i + 1, t \div Base)

BigAdd(a, b) == AddFrom(a, b, 1, 0)

\* a - b for a >= b.
RECURSIVE SubFrom(_, _, _, _)
SubFrom(a, b, i, borrow) ==
    IF i > Len(a) THEN <<>>
    ELSE LET t == Limb(a, i) - Limb(b, i) - borrow
         IN  <<IF t < 0 THEN t + Base ELSE t>>
             \o SubFrom(a, b, i + 1, IF t < 0 THEN 1 ELSE 0)

BigSub(a, b) == BigTrim(SubFrom(a, b, 1, 0))

RECURSIVE LessFrom(_, _, _)
LessFrom(a, b, i) ==
    IF i = 0 THEN FALSE
    ELSE IF a[i] # b[i] THEN a[i] < b[i]
    ELSE LessFrom(a, b, i - 1)

BigLess(a, b) == IF Len(a) # Len(b) THEN Len(a) < Len(b) ELSE LessFrom(a, b, Len(a))

\* a * k for a limb k.
RECURSIVE MulSmallFrom(_, _, _, _)
MulSmallFrom(a, k, i, carry) ==
    IF i > Len(a)
    THEN IF carry = 0 THEN <<>> ELSE <<carry>>
    ELSE LET t == a[i] * k + carry
         IN  <<t % Base>> \o MulSmallFrom(a, k, i + 1, t \div Base)

BigMulSmall(a, k) == IF k = 0 THEN <<>> ELSE MulSmallFrom(a, k, 1, 0)

BigShiftLimbs(a, n) == IF a = <<>> THEN <<>> ELSE [i \in 1 .. n |-> 0] \o a

RECURSIVE MulFrom(_, _, _)
MulFrom(a, b, j) ==
    IF j > Len(b) THEN <<>>
    ELSE BigAdd(BigShiftLimbs(BigMulSmall(a, b[j]), j - 1), MulFrom(a, b, j + 1))

BigMul(a, b) == MulFrom(a, b, 1)

RECURSIVE SmallBitLength(_)
SmallBitLength(n) == IF n = 0 THEN 0 ELSE 1 + SmallBitLength(n \div 2)

BigBitLength(a) ==
    IF a = <<>> THEN 0 ELSE LimbBits * (Len(a) - 1) + SmallBitLength(a[Len(a)])

\* Bit i of a, bit 0 the least significant.
BigBit(a, i) == (Limb(a, i \div LimbBits + 1) \div Pow2(i % LimbBits)) % 2

\* a * 2^k
BigShl(a, k) == BigShiftLimbs(BigMulSmall(a, Pow2(k % LimbBits)), k \div LimbBits)

\* The quotient of the limbs 1 .. i of a, under the remainder rem of the
\* limbs above them, by a limb k.
RECURSIVE DivSmallFrom(_, _, _, _)
DivSmallFrom(a, k, i, rem) ==
    IF i = 0 THEN <<>>
    ELSE LET t == rem * Base + a[i]
         IN  DivSmallFrom(a, k, i - 1, t % k) \o <<t \div k>>

\* floor(a / 2^k)
BigShr(a, k) ==
    LET limbs == k \div LimbBits
        upper == IF limbs >= Len(a) THEN <<>> ELSE SubSeq(a, limbs + 1, Len(a))
    IN  BigTrim(DivSmallFrom(upper, Pow2(k % LimbBits), Len(upper), 0))

\* Long division by d, a bit at a time: the next `count` bits of the
\* quotient, as a number q, and the remainder, from the remainder r so far,
\* the dividend having only zero bits left.
RECURSIVE DivBits(_, _, _, _)
DivBits(d, r, q, count) ==
    IF count = 0 \/ Len(r) < 0 THEN [q |-> q, r |-> r]
    ELSE LET r2 == BigMulSmall(r, 2)
             fits == ~BigLess(r2, d)
         IN  DivBits(d, IF fits THEN BigSub(r2, d) ELSE r2,
                     2 * q + (IF fits THEN 1 ELSE 0), count - 1)

\* The next `limbs` limbs of the quotient, and the remainder.
RECURSIVE DivLimbs(_, _, _)
DivLimbs(d, r, limbs) ==
    IF limbs = 0 THEN [q |-> <<>>, r |-> r]
    ELSE LET top == DivBits(d, r, 0, LimbBits)
             rest == DivLimbs(d, top.r, limbs - 1)
         IN  [q |-> rest.q \o <<top.q>>, r |-> rest.r]

\* The quotient and the remainder of n * 2^(LimbBits * limbs) by d, for n
\* and d of the same bit length.
BigDivMod(n, d, limbs) ==
    LET first == IF BigLess(n, d) THEN 0 ELSE 1
        below == DivLimbs(d, IF first = 1 THEN BigSub(n, d) ELSE n, limbs)
    IN  [q |-> BigTrim(below.q \o <<first>>), r |-> below.r]

FZero == [sign |-> 0, m |-> <<>>, e |-> 0]

\* The double nearest to (-1)^sign * (m + s) * 2^e, where s is 0, or,
\* when `sticky`, some amount strictly between 0 and 1.  Ties go to the
\* even significand.
FRound(sign, m, e, sticky) ==
    LET length == BigBitLength(m)
        k == length - SignificandBits
        q == BigShr(m, k)
        r == BigSub(m, BigShl(q, k))
        half == BigShl(<<1>>, k - 1)
        up == BigLess(half, r) \/ (r = half /\ (sticky \/ BigBit(q, 0) = 1))
        rounded == IF up THEN BigAdd(q, <<1>>) ELSE q
    IN  IF m = <<>> THEN FZero
        ELSE IF k <= 0 THEN [sign |-> sign, m |-> BigShl(m, -k), e |-> e + k]
        ELSE IF BigBitLength(rounded) > SignificandBits
        THEN [sign |-> sign, m |-> BigShr(rounded, 1), e |-> e + k + 1]
        ELSE [sign |-> sign, m |-> rounded, e |-> e + k]

\* float(n) of a natural n
FOfNat(n) == FRound(0, BigOfNat(n), 0, FALSE)

FNeg(a) == IF a.m = <<>> THEN a ELSE [a EXCEPT !.sign = 1 - a.sign]

FMul(a, b) ==
    IF a.m = <<>> \/ b.m = <<>> THEN FZero
    ELSE FRound((a.sign + b.sign) % 2, BigMul(a.m, b.m), a.e + b.e, FALSE)

\* a / b: four more limbs of the dividend give a quotient of 60 or 61
\* bits, and the remainder tells whether anything lies below it.
FDiv(a, b) ==
    IF b.m = <<>> THEN ZeroDivisionError
    ELSE IF a.m = <<>> THEN FZero
    ELSE LET qr == BigDivMod(a.m, b.m, 4)
         IN  FRound((a.sign + b.sign) % 2, qr.q, a.e - b.e - 4 * LimbBits,
                    qr.r # <<>>)

FAdd(a, b) ==
    IF a.m = <<>> THEN b
    ELSE IF b.m = <<>> THEN a
    ELSE LET e == IF a.e < b.e THEN a.e ELSE b.e
             am == BigShl(a.m, a.e - e)
             bm == BigShl(b.m, b.e - e)
         IN  IF a.sign = b.sign THEN FRound(a.sign, BigAdd(am, bm), e, FALSE)
             ELSE IF am = bm THEN FZero
             ELSE IF BigLess(am, bm) THEN FRound(b.sign, BigSub(bm, am), e, FALSE)
             ELSE FRound(a.sign, BigSub(am, bm), e, FALSE)

FSub(a, b) == FAdd(a, FNeg(b))

\* The double nearest to a rational that is not negative: what Python
\* reads a literal such as 0.01 as, and float(n) for a natural.
FOfRational(r) == FDiv(FOfNat(r.n), FOfNat(r.d))

\* The difference |f - r| of a double and a rational, times r.d * 2^E,
\* where -E is the exponent of f when that is negative, and 0 otherwise.
ScaledDistance(f, r) ==
    LET fm == BigMul(BigShl(f.m, IF f.e > 0 THEN f.e ELSE 0), BigOfNat(r.d))
        rm == BigShl(BigOfNat(IF r.n < 0 THEN -r.n ELSE r.n), IF f.e < 0 THEN -f.e ELSE 0)
        same_sign == fm = <<>> \/ rm = <<>> \/ ((f.sign = 1) <=> (r.n < 0))
    IN  IF ~same_sign THEN BigAdd(fm, rm)
        ELSE IF BigLess(fm, rm) THEN BigSub(rm, fm)
        ELSE BigSub(fm, rm)

\* The double f is the rational r exactly.
FIsRational(f, r) == ScaledDistance(f, r) = <<>>

\* The double f is within 2^-bits of the rational r.
FNear(f, r, bits) ==
    ~BigLess(BigShl(BigOfNat(r.d), IF f.e < 0 THEN -f.e ELSE 0),
             BigShl(ScaledDistance(f, r), bits))

\* The double 2^k.
FPow2(k) == [sign |-> 0, m |-> BigShl(<<1>>, SignificandBits - 1),
             e |-> k - (SignificandBits - 1)]

----------------------------------------------------------------------------
(* class InvestmentAnalytics *)

\* __init__: the three default rates, 0.04, 0.05 and 0.01.
InvestmentAnalytics ==
    [default_appreciation_rate |-> R(4, 100),
     default_vacancy_rate      |-> R(5, 100),
     default_maintenance_rate  |-> R(1, 100)]

\* calculate_roi with the expenses of one year instead of the whole period.
calculate_roi_one_year_expenses(slf, purchase_price, annual_rental_income, operating_expenses, holding_period_years) ==
    LET total_rental_income == RMul(annual_rental_income, Num(holding_period_years))
        total_expenses == operating_expenses
        future_value ==
            RMul(purchase_price,
                 RPow(RAdd(Num(1), slf.default_appreciation_rate),
                      holding_period_years))
        net_profit == RAdd(RSub(future_value, purchase_price),
                           RSub(total_rental_income, total_expenses))
    IN  IF PowOverflows(RAdd(Num(1), slf.default_appreciation_rate),
                        holding_period_years) THEN OverflowError
        ELSE IF purchase_price = Zero THEN ZeroDivisionError
        ELSE [roi_percentage        |-> RMul(RDiv(net_profit, purchase_price), Num(100)),
              net_profit            |-> net_profit,
              future_property_value |-> future_value,
              total_rental_income   |-> total_rental_income,
              total_expenses        |-> total_expenses]

\* calculate_roi with one year of appreciation whatever the holding period.
calculate_roi_one_year_growth(slf, purchase_price, annual_rental_income, operating_expenses, holding_period_years) ==
    LET total_rental_income == RMul(annual_rental_income, Num(holding_period_years))
        total_expenses == RMul(operating_expenses, Num(holding_period_years))
        future_value ==
            RMul(purchase_price, RAdd(Num(1), slf.default_appreciation_rate))
        net_profit == RAdd(RSub(future_value, purchase_price),
                           RSub(total_rental_income, total_expenses))
    IN  IF purchase_price = Zero THEN ZeroDivisionError
        ELSE [roi_percentage        |-> RMul(RDiv(net_profit, purchase_price), Num(100)),
              net_profit            |-> net_profit,
              future_property_value |-> future_value,
              total_rental_income   |-> total_rental_income,
              total_expenses        |-> total_expenses]

calculate_roi(slf, purchase_price, annual_rental_income, operating_expenses, holding_period_years) ==
    LET total_rental_income == RMul(annual_rental_income, Num(holding_period_years))
        total_expenses == RMul(operating_expenses, Num(holding_period_years))
        future_value ==
            RMul(purchase_price,
                 RPow(RAdd(Num(1), slf.default_appreciation_rate),
                      holding_period_years))
        net_profit == RAdd(RSub(future_value, purchase_price),
                           RSub(total_rental_income, total_expenses))
    IN  IF PowOverflows(RAdd(Num(1), slf.default_appreciation_rate),
                        holding_period_years) THEN OverflowError
        ELSE IF purchase_price = Zero THEN ZeroDivisionError
        ELSE [roi_percentage        |-> RMul(RDiv(net_profit, purchase_price), Num(100)),
              net_profit            |-> net_profit,
              future_property_value |-> future_value,
              total_rental_income   |-> total_rental_income,
              total_expenses        |-> total_expenses]

\* calculate_rental_yield with a floor at zero under the net income: a
\* property whose expenses exceed its rent would report a net income of 0.
calculate_rental_yield_clamped(slf, purchase_price, annual_rental_income) ==
    LET annual_expenses ==
            RMul(purchase_price,
                 RAdd(slf.default_maintenance_rate, slf.default_vacancy_rate))
        difference == RSub(annual_rental_income, annual_expenses)
        net_rental_income == IF RLt(difference, Zero) THEN Zero ELSE difference
    IN  IF purchase_price = Zero THEN ZeroDivisionError
        ELSE [gross_yield_percentage |->
                  RMul(RDiv(annual_rental_income, purchase_price), Num(100)),
              net_yield_percentage   |->
                  RMul(RDiv(net_rental_income, purchase_price), Num(100)),
              annual_rental_income   |-> annual_rental_income,
              annual_expenses        |-> annual_expenses,
              net_annual_income      |-> net_rental_income]

calculate_rental_yield(slf, purchase_price, annual_rental_income) ==
    LET annual_expenses ==
            RMul(purchase_price,
                 RAdd(slf.default_maintenance_rate, slf.default_vacancy_rate))
        net_rental_income == RSub(annual_rental_income, annual_expenses)
    IN  IF purchase_price = Zero THEN ZeroDivisionError
        ELSE [gross_yield_percentage |->
                  RMul(RDiv(annual_rental_income, purchase_price), Num(100)),
              net_yield_percentage   |->
                  RMul(RDiv(net_rental_income, purchase_price), Num(100)),
              annual_rental_income   |-> annual_rental_income,
              annual_expenses        |-> annual_expenses,
              net_annual_income      |-> net_rental_income]

\* The engine with its rates as the doubles Python holds for them.
InFloats(slf) == [attribute \in DOMAIN slf |-> FOfRational(slf[attribute])]

\* calculate_rental_yield on doubles, with the expenses as the sum of the
\* two products: the maintenance and the vacancy, each rounded by itself.
calculate_rental_yield_in_floats_by_parts(slf, purchase_price, annual_rental_income) ==
    LET gross_yield == FDiv(annual_rental_income, purchase_price)
        annual_expenses ==
            FAdd(FMul(purchase_price, slf.default_maintenance_rate),
                 FMul(purchase_price, slf.default_vacancy_rate))
        net_rental_income == FSub(annual_rental_income, annual_expenses)
    IN  IF Raised(gross_yield) THEN gross_yield
        ELSE [gross_yield_percentage |-> FMul(gross_yield, FOfNat(100)),
              net_yield_percentage   |->
                  FMul(FDiv(net_rental_income, purchase_price), FOfNat(100)),
              annual_rental_income   |-> annual_rental_income,
              annual_expenses        |-> annual_expenses,
              net_annual_income      |-> net_rental_income]

\* calculate_rental_yield as Python computes it: every operation of the
\* method on doubles, in the order of the code, each result rounded.
calculate_rental_yield_in_floats(slf, purchase_price, annual_rental_income) ==
    LET gross_yield == FDiv(annual_rental_income, purchase_price)
        annual_expenses ==
            FMul(purchase_price,
                 FAdd(slf.default_maintenance_rate, slf.default_vacancy_rate))
        net_rental_income == FSub(annual_rental_income, annual_expenses)
    IN  IF Raised(gross_yield) THEN gross_yield
        ELSE [gross_yield_percentage |-> FMul(gross_yield, FOfNat(100)),
              net_yield_percentage   |->
                  FMul(FDiv(net_rental_income, purchase_price), FOfNat(100)),
              annual_rental_income   |-> annual_rental_income,
              annual_expenses        |-> annual_expenses,
              net_annual_income      |-> net_rental_income]

\* appreciation_loop over range(1, years): the last year is left out.
RECURSIVE appreciation_loop_short(_, _, _, _, _, _)
appreciation_loop_short(purchase_price, appreciation_rate, year, years, current_value, appreciation_schedule) ==
    IF year >= years
    THEN [appreciation_schedule |-> appreciation_schedule,
          current_value |-> current_value]
    ELSE LET value == RMul(current_value, RAdd(Num(1), appreciation_rate))
             appreciation_amount == RSub(value, purchase_price)
             appreciation_percentage ==
                 RMul(RDiv(appreciation_amount, purchase_price), Num(100))
         IN  appreciation_loop_short(purchase_price, appreciation_rate, year + 1, years,
                 value,
                 Append(appreciation_schedule,
                        [year                    |-> year,
                         property_value          |-> value,
                         appreciation_amount     |-> appreciation_amount,
                         appreciation_percentage |-> appreciation_percentage]))

\* appreciation_loop with each year's appreciation taken against the year
\* before instead of against purchase_price.
RECURSIVE appreciation_loop_yearly(_, _, _, _, _, _)
appreciation_loop_yearly(purchase_price, appreciation_rate, year, years, current_value, appreciation_schedule) ==
    IF year > years
    THEN [appreciation_schedule |-> appreciation_schedule,
          current_value |-> current_value]
    ELSE LET value == RMul(current_value, RAdd(Num(1), appreciation_rate))
             appreciation_amount == RSub(value, current_value)
             appreciation_percentage ==
                 RMul(RDiv(appreciation_amount, current_value), Num(100))
         IN  appreciation_loop_yearly(purchase_price, appreciation_rate, year + 1, years,
                 value,
                 Append(appreciation_schedule,
                        [year                    |-> year,
                         property_value          |-> value,
                         appreciation_amount     |-> appreciation_amount,
                         appreciation_percentage |-> appreciation_percentage]))

\* The for loop of calculate_appreciation, from `year` to `years`: the
\* schedule with one entry appended per year.  purchase_price # 0.
RECURSIVE appreciation_loop(_, _, _, _, _, _)
appreciation_loop(purchase_price, appreciation_rate, year, years, current_value, appreciation_schedule) ==
    IF year > years
    THEN [appreciation_schedule |-> appreciation_schedule,
          current_value |-> current_value]
    ELSE LET value == RMul(current_value, RAdd(Num(1), appreciation_rate))
             appreciation_amount == RSub(value, purchase_price)
             appreciation_percentage ==
                 RMul(RDiv(appreciation_amount, purchase_price), Num(100))
         IN  appreciation_loop(purchase_price, appreciation_rate, year + 1, years,
                 value,
                 Append(appreciation_schedule,
                        [year                    |-> year,
                         property_value          |-> value,
                         appreciation_amount     |-> appreciation_amount,
                         appreciation_percentage |-> appreciation_percentage]))

\* appreciation_rate is None or Some(rate).
calculate_appreciation(slf, purchase_price, years, appreciation_rate) ==
    LET rate == IF appreciation_rate = None
                THEN slf.default_appreciation_rate
                ELSE appreciation_rate[1]
        loop == appreciation_loop(purchase_price, rate, 1, years,
                                  purchase_price, <<>>)
        current_value == loop.current_value
    IN  IF purchase_price = Zero THEN ZeroDivisionError
        ELSE [appreciation_schedule |-> loop.appreciation_schedule,
              final_value |-> current_value,
              total_appreciation |-> RSub(current_value, purchase_price),
              total_appreciation_percentage |->
                  RMul(RDiv(RSub(current_value, purchase_price), purchase_price),
                       Num(100))]

\* calculate_cash_flow without the test on line 97: a maintenance of 0 is
\* taken as given.
calculate_cash_flow_zero_honoured(slf, purchase_price, annual_rental_income, mortgage_payment, property_tax, insurance, maintenance) ==
    LET total_expenses ==
            RAdd(RAdd(RAdd(mortgage_payment, property_tax), insurance), maintenance)
        effective_rental_income ==
            RMul(annual_rental_income, RSub(Num(1), slf.default_vacancy_rate))
        annual_cash_flow == RSub(effective_rental_income, total_expenses)
    IN  IF purchase_price = Zero THEN ZeroDivisionError
        ELSE [annual_cash_flow        |-> annual_cash_flow,
              monthly_cash_flow       |-> RDiv(annual_cash_flow, Num(12)),
              effective_rental_income |-> effective_rental_income,
              total_annual_expenses   |-> total_expenses,
              cash_on_cash_return     |->
                  RMul(RDiv(annual_cash_flow, purchase_price), Num(100))]

\* calculate_cash_flow with the return measured on a down payment of 20% of
\* the price instead of the whole price.
calculate_cash_flow_on_down_payment(slf, purchase_price, annual_rental_income, mortgage_payment, property_tax, insurance, maintenance) ==
    LET maint == IF maintenance = Zero
                 THEN RMul(purchase_price, slf.default_maintenance_rate)
                 ELSE maintenance
        total_expenses ==
            RAdd(RAdd(RAdd(mortgage_payment, property_tax), insurance), maint)
        effective_rental_income ==
            RMul(annual_rental_income, RSub(Num(1), slf.default_vacancy_rate))
        annual_cash_flow == RSub(effective_rental_income, total_expenses)
        down_payment == RMul(purchase_price, R(20, 100))
    IN  IF purchase_price = Zero THEN ZeroDivisionError
        ELSE [annual_cash_flow        |-> annual_cash_flow,
              monthly_cash_flow       |-> RDiv(annual_cash_flow, Num(12)),
              effective_rental_income |-> effective_rental_income,
              total_annual_expenses   |-> total_expenses,
              cash_on_cash_return     |->
                  RMul(RDiv(annual_cash_flow, down_payment), Num(100))]

\* The value calculate_cash_flow returns, or the exception it ends in.
calculate_cash_flow(slf, purchase_price, annual_rental_income, mortgage_payment, property_tax, insurance, maintenance) ==
    LET maint == IF maintenance = Zero
                 THEN RMul(purchase_price, slf.default_maintenance_rate)
                 ELSE maintenance
        total_expenses ==
            RAdd(RAdd(RAdd(mortgage_payment, property_tax), insurance), maint)
        effective_rental_income ==
            RMul(annual_rental_income, RSub(Num(1), slf.default_vacancy_rate))
        annual_cash_flow == RSub(effective_rental_income, total_expenses)
    IN  IF purchase_price = Zero THEN ZeroDivisionError
        ELSE [annual_cash_flow        |-> annual_cash_flow,
              monthly_cash_flow       |-> RDiv(annual_cash_flow, Num(12)),
              effective_rental_income |-> effective_rental_income,
              total_annual_expenses   |-> total_expenses,
              cash_on_cash_return     |->
                  RMul(RDiv(annual_cash_flow, purchase_price), Num(100))]

\* calculate_cap_rate with the test on line 122 written "if not
\* operating_expenses": an explicit 0 is replaced like a missing value.
calculate_cap_rate_falsy(slf, purchase_price, annual_rental_income, operating_expenses) ==
    LET expenses ==
            IF operating_expenses = None \/ operating_expenses = Some(Zero)
            THEN RMul(purchase_price,
                      RAdd(slf.default_maintenance_rate, slf.default_vacancy_rate))
            ELSE operating_expenses[1]
        net_operating_income == RSub(annual_rental_income, expenses)
    IN  IF purchase_price = Zero THEN ZeroDivisionError
        ELSE [cap_rate_percentage  |->
                  RMul(RDiv(net_operating_income, purchase_price), Num(100)),
              net_operating_income |-> net_operating_income,
              annual_rental_income |-> annual_rental_income,
              operating_expenses   |-> expenses]

\* operating_expenses is None or Some(amount).
calculate_cap_rate(slf, purchase_price, annual_rental_income, operating_expenses) ==
    LET expenses ==
            IF operating_expenses = None
            THEN RMul(purchase_price,
                      RAdd(slf.default_maintenance_rate, slf.default_vacancy_rate))
            ELSE operating_expenses[1]
        net_operating_income == RSub(annual_rental_income, expenses)
    IN  IF purchase_price = Zero THEN ZeroDivisionError
        ELSE [cap_rate_percentage  |->
                  RMul(RDiv(net_operating_income, purchase_price), Num(100)),
              net_operating_income |-> net_operating_income,
              annual_rental_income |-> annual_rental_income,
              operating_expenses   |-> expenses]

NegativeCashFlowMessage == <<"Property generates negative cash flow">>

\* calculate_break_even_point with the sentinel test strict (< 0): a net
\* income of zero reaches the division.
calculate_break_even_point_strict(slf, purchase_price, annual_rental_income, annual_expenses) ==
    LET annual_net_income == RSub(annual_rental_income, annual_expenses)
        break_even_years == RDiv(purchase_price, annual_net_income)
    IN  IF RLt(annual_net_income, Zero)
        THEN {[break_even_years |-> None,
               message          |-> NegativeCashFlowMessage]}
        ELSE IF annual_net_income = Zero THEN {ZeroDivisionError}
        ELSE {[break_even_years  |-> Some(break_even_years),
               annual_net_income |-> annual_net_income,
               message           |->
                   <<"Break-even in ">> \o TenthsToStr(k) \o <<" years">>]
              : k \in FormatTenths(break_even_years)}

\* The value calculate_break_even_point returns, as a one-element set (the
\* message is formatted by FormatTenths).
calculate_break_even_point(slf, purchase_price, annual_rental_income, annual_expenses) ==
    LET annual_net_income == RSub(annual_rental_income, annual_expenses)
        break_even_years == RDiv(purchase_price, annual_net_income)
    IN  IF RLe(annual_net_income, Zero)
        THEN {[break_even_years |-> None,
               message          |-> NegativeCashFlowMessage]}
        ELSE {[break_even_years  |-> Some(break_even_years),
               annual_net_income |-> annual_net_income,
               message           |->
                   <<"Break-even in ">> \o TenthsToStr(k) \o <<" years">>]
              : k \in FormatTenths(break_even_years)}

KeyError == [exception |-> "KeyError"]

\* dict.get(key, default)
Get(d, key, default) == IF key \in DOMAIN d THEN d[key] ELSE default

\* comprehensive_analysis with the three defaults written
\* "property_data.get(key) or default": an explicit 0 is replaced by the
\* default like a missing key.
comprehensive_analysis_falsy_defaults(slf, property_data) ==
    IF "purchase_price" \notin DOMAIN property_data THEN {KeyError}
    ELSE
    LET purchase_price == property_data["purchase_price"]
        income_given == Get(property_data, "annual_rental_income", Zero)
        annual_rental_income ==
            IF income_given = Zero THEN RMul(purchase_price, R(5, 100))
            ELSE income_given
        expenses_given == Get(property_data, "operating_expenses", Zero)
        operating_expenses ==
            IF expenses_given = Zero THEN RMul(purchase_price, R(2, 100))
            ELSE expenses_given
        period_given == Get(property_data, "holding_period_years", 0)
        holding_period == IF period_given = 0 THEN 5 ELSE period_given
        roi == calculate_roi(slf, purchase_price, annual_rental_income,
                             operating_expenses, holding_period)
    IN  IF Raised(roi) THEN {roi}
        ELSE {[property_price |-> purchase_price,
               roi            |-> roi,
               rental_yield   |-> calculate_rental_yield(slf, purchase_price,
                                      annual_rental_income),
               appreciation   |-> calculate_appreciation(slf, purchase_price,
                                      holding_period, None),
               cash_flow      |-> calculate_cash_flow(slf, purchase_price,
                                      annual_rental_income, Zero, Zero, Zero, Zero),
               cap_rate       |-> calculate_cap_rate(slf, purchase_price,
                                      annual_rental_income, None),
               break_even     |-> b]
              : b \in calculate_break_even_point(slf, purchase_price,
                          annual_rental_income, operating_expenses)}

\* comprehensive_analysis passing a mortgage payment to calculate_cash_flow:
\* the yearly interest on the financed part of the price, when the three
\* loan keys are present.
comprehensive_analysis_with_mortgage(slf, property_data) ==
    IF "purchase_price" \notin DOMAIN property_data THEN {KeyError}
    ELSE
    LET purchase_price == property_data["purchase_price"]
        annual_rental_income ==
            Get(property_data, "annual_rental_income",
                RMul(purchase_price, R(5, 100)))
        operating_expenses ==
            Get(property_data, "operating_expenses",
                RMul(purchase_price, R(2, 100)))
        holding_period == Get(property_data, "holding_period_years", 5)
        mortgage_payment ==
            IF {"down_payment_percent", "loan_interest_rate", "loan_term_years"}
                   \subseteq DOMAIN property_data
            THEN RMul(RMul(purchase_price,
                           RSub(Num(1), RDiv(property_data["down_payment_percent"],
                                             Num(100)))),
                      RDiv(property_data["loan_interest_rate"], Num(100)))
            ELSE Zero
        roi == calculate_roi(slf, purchase_price, annual_rental_income,
                             operating_expenses, holding_period)
    IN  IF Raised(roi) THEN {roi}
        ELSE {[property_price |-> purchase_price,
               roi            |-> roi,
               rental_yield   |-> calculate_rental_yield(slf, purchase_price,
                                      annual_rental_income),
               appreciation   |-> calculate_appreciation(slf, purchase_price,
                                      holding_period, None),
               cash_flow      |-> calculate_cash_flow(slf, purchase_price,
                                      annual_rental_income, mortgage_payment,
                                      Zero, Zero, Zero),
               cap_rate       |-> calculate_cap_rate(slf, purchase_price,
                                      annual_rental_income, None),
               break_even     |-> b]
              : b \in calculate_break_even_point(slf, purchase_price,
                          annual_rental_income, operating_expenses)}

\* comprehensive_analysis handing the operating expenses on to
\* calculate_cap_rate as well.
comprehensive_analysis_passing_expenses(slf, property_data) ==
    IF "purchase_price" \notin DOMAIN property_data THEN {KeyError}
    ELSE
    LET purchase_price == property_data["purchase_price"]
        annual_rental_income ==
            Get(property_data, "annual_rental_income",
                RMul(purchase_price, R(5, 100)))
        operating_expenses ==
            Get(property_data, "operating_expenses",
                RMul(purchase_price, R(2, 100)))
        holding_period == Get(property_data, "holding_period_years", 5)
        roi == calculate_roi(slf, purchase_price, annual_rental_income,
                             operating_expenses, holding_period)
    IN  IF Raised(roi) THEN {roi}
        ELSE {[property_price |-> purchase_price,
               roi            |-> roi,
               rental_yield   |-> calculate_rental_yield(slf, purchase_price,
                                      annual_rental_income),
               appreciation   |-> calculate_appreciation(slf, purchase_price,
                                      holding_period, None),
               cash_flow      |-> calculate_cash_flow(slf, purchase_price,
                                      annual_rental_income, Zero, Zero, Zero, Zero),
               cap_rate       |-> calculate_cap_rate(slf, purchase_price,
                                      annual_rental_income, Some(operating_expenses)),
               break_even     |-> b]
              : b \in calculate_break_even_point(slf, purchase_price,
                          annual_rental_income, operating_expenses)}

\* The value comprehensive_analysis returns, or the exception it ends in, as
\* a one-element set (see calculate_break_even_point).  property_data
\* is a record; holding_period_years, when present, is an integer.
comprehensive_analysis(slf, property_data) ==
    IF "purchase_price" \notin DOMAIN property_data THEN {KeyError}
    ELSE
    LET purchase_price == property_data["purchase_price"]
        annual_rental_income ==
            Get(property_data, "annual_rental_income",
                RMul(purchase_price, R(5, 100)))
        operating_expenses ==
            Get(property_data, "operating_expenses",
                RMul(purchase_price, R(2, 100)))
        holding_period == Get(property_data, "holding_period_years", 5)
        roi == calculate_roi(slf, purchase_price, annual_rental_income,
                             operating_expenses, holding_period)
    IN  IF Raised(roi) THEN {roi}
        ELSE {[property_price |-> purchase_price,
               roi            |-> roi,
               rental_yield   |-> calculate_rental_yield(slf, purchase_price,
                                      annual_rental_income),
               appreciation   |-> calculate_appreciation(slf, purchase_price,
                                      holding_period, None),
               cash_flow      |-> calculate_cash_flow(slf, purchase_price,
                                      annual_rental_income, Zero, Zero, Zero, Zero),
               cap_rate       |-> calculate_cap_rate(slf, purchase_price,
                                      annual_rental_income, None),
               break_even     |-> b]
              : b \in calculate_break_even_point(slf, purchase_price,
                          annual_rental_income, operating_expenses)}

\* roi_evaluation with the middle threshold not strict (roi >= 30).
roi_evaluation_inclusive(roi) ==
    IF RGt(roi, Num(50)) THEN [score |-> 3, recommendations |-> <<"Excellent ROI potential">>]
    ELSE IF ~RLt(roi, Num(30)) THEN [score |-> 2, recommendations |-> <<"Good ROI potential">>]
    ELSE IF RGt(roi, Num(15)) THEN [score |-> 1, recommendations |-> <<"Moderate ROI potential">>]
    ELSE [score |-> 0, recommendations |-> <<"Low ROI - consider other options">>]

\* The ROI evaluation: the points added to the score and the message appended.
roi_evaluation(roi) ==
    IF RGt(roi, Num(50)) THEN [score |-> 3, recommendations |-> <<"Excellent ROI potential">>]
    ELSE IF RGt(roi, Num(30)) THEN [score |-> 2, recommendations |-> <<"Good ROI potential">>]
    ELSE IF RGt(roi, Num(15)) THEN [score |-> 1, recommendations |-> <<"Moderate ROI potential">>]
    ELSE [score |-> 0, recommendations |-> <<"Low ROI - consider other options">>]

\* The rental yield evaluation.
rental_yield_evaluation(rental_yield) ==
    IF RGt(rental_yield, Num(6)) THEN [score |-> 3, recommendations |-> <<"Strong rental yield">>]
    ELSE IF RGt(rental_yield, Num(4)) THEN [score |-> 2, recommendations |-> <<"Acceptable rental yield">>]
    ELSE [score |-> 0, recommendations |-> <<"Low rental yield">>]

\* cap_rate_evaluation with a message in the lowest tier too.
cap_rate_evaluation_with_else(cap_rate) ==
    IF RGt(cap_rate, Num(8)) THEN [score |-> 2, recommendations |-> <<"Attractive cap rate">>]
    ELSE IF RGt(cap_rate, Num(5)) THEN [score |-> 1, recommendations |-> <<"Fair cap rate">>]
    ELSE [score |-> 0, recommendations |-> <<"Low cap rate">>]

\* The cap rate evaluation: no message below the lower threshold.
cap_rate_evaluation(cap_rate) ==
    IF RGt(cap_rate, Num(8)) THEN [score |-> 2, recommendations |-> <<"Attractive cap rate">>]
    ELSE IF RGt(cap_rate, Num(5)) THEN [score |-> 1, recommendations |-> <<"Fair cap rate">>]
    ELSE [score |-> 0, recommendations |-> <<>>]

\* cash_flow_evaluation worth three points, like the two metrics before it.
cash_flow_evaluation_three(cash_flow) ==
    IF RGt(cash_flow, Zero) THEN [score |-> 3, recommendations |-> <<"Positive cash flow">>]
    ELSE [score |-> 0, recommendations |-> <<"Negative cash flow - requires capital">>]

\* The cash flow evaluation.
cash_flow_evaluation(cash_flow) ==
    IF RGt(cash_flow, Zero) THEN [score |-> 2, recommendations |-> <<"Positive cash flow">>]
    ELSE [score |-> 0, recommendations |-> <<"Negative cash flow - requires capital">>]

\* overall_recommendation with the bands compared strictly (score > 8, ...).
overall_recommendation_strict(score) ==
    IF score > 8 THEN "STRONG BUY - Excellent investment opportunity"
    ELSE IF score > 5 THEN "BUY - Good investment potential"
    ELSE IF score > 3 THEN "HOLD - Consider carefully"
    ELSE "AVOID - Poor investment metrics"

\* The overall recommendation of a score.
overall_recommendation(score) ==
    IF score >= 8 THEN "STRONG BUY - Excellent investment opportunity"
    ELSE IF score >= 5 THEN "BUY - Good investment potential"
    ELSE IF score >= 3 THEN "HOLD - Consider carefully"
    ELSE "AVOID - Poor investment metrics"

investment_recommendation(slf, analysis) ==
    LET roi == analysis["roi"]["roi_percentage"]
        rental_yield == analysis["rental_yield"]["net_yield_percentage"]
        cap_rate == analysis["cap_rate"]["cap_rate_percentage"]
        cash_flow == analysis["cash_flow"]["annual_cash_flow"]
        e1 == roi_evaluation(roi)
        e2 == rental_yield_evaluation(rental_yield)
        e3 == cap_rate_evaluation(cap_rate)
        e4 == cash_flow_evaluation(cash_flow)
        score == 0 + e1.score + e2.score + e3.score + e4.score
        recommendations ==
            <<>> \o e1.recommendations \o e2.recommendations
                 \o e3.recommendations \o e4.recommendations
    IN  [score                    |-> score,
         overall_recommendation   |-> overall_recommendation(score),
         detailed_recommendations |-> recommendations]

----------------------------------------------------------------------------
(* The API: POST /analyze (backend/src/api/main.py) *)

\* A KeyError for a key a dict does not have.
KeyErrorOf(key) == [exception |-> "KeyError", key |-> key]

\* str(e) of an exception, as the pieces of the text.
Str(e) ==
    IF "message" \in DOMAIN e THEN e.message
    ELSE IF e.exception = "KeyError" /\ "key" \in DOMAIN e THEN <<"'", e.key, "'">>
    ELSE IF e.exception = "ZeroDivisionError" THEN <<"float division by zero">>
    ELSE IF e.exception = "OverflowError"
         THEN <<"(34, 'Numerical result out of range')">>
    ELSE <<e.exception>>

HTTPException(status_code, detail) == [status_code |-> status_code, detail |-> detail]

\* The keys analyze_investment reads from the analysis, in the order of the
\* keyword arguments, each with the response field it is to fill.
ResultFields ==
    <<[field |-> "roi",                 key |-> "roi"],
      [field |-> "rental_yield",        key |-> "rental_yield"],
      [field |-> "cap_rate",            key |-> "cap_rate"],
      [field |-> "cash_flow_monthly",   key |-> "monthly_cash_flow"],
      [field |-> "cash_flow_annual",    key |-> "annual_cash_flow"],
      [field |-> "total_return",        key |-> "total_return"],
      [field |-> "appreciation_value",  key |-> "appreciation_value"],
      [field |-> "total_rental_income", key |-> "total_rental_income"],
      [field |-> "total_expenses",      key |-> "total_expenses"],
      [field |-> "net_profit",          key |-> "net_profit"]>>

\* ... and from the recommendation.
RecommendationFields ==
    <<[field |-> "investment_grade", key |-> "grade"],
      [field |-> "recommendation",   key |-> "recommendation"]>>

\* The positions of the keys that d[key] would not find.
Missing(d, fields) == {i \in 1 .. Len(fields) : fields[i].key \notin DOMAIN d}

Min(S) == CHOOSE i \in S : \A k \in S : i <= k

\* A value a float field of the response accepts: a number, not a dict.
IsFloat(v) == DOMAIN v = {"n", "d"}

\* InvestmentAnalysisResponse(...): the keyword arguments are evaluated in
\* order, so the first absent key raises KeyError; then the ten float
\* fields are validated.
InvestmentAnalysisResponse(result, recommendation) ==
    LET no_result == Missing(result, ResultFields)
        no_recommendation == Missing(recommendation, RecommendationFields)
    IN  IF no_result # {}
        THEN KeyErrorOf(ResultFields[Min(no_result)].key)
        ELSE IF no_recommendation # {}
        THEN KeyErrorOf(RecommendationFields[Min(no_recommendation)].key)
        ELSE IF \E i \in 1 .. Len(ResultFields) : ~IsFloat(result[ResultFields[i].key])
        THEN [exception |-> "ValidationError"]
        ELSE [f \in {ResultFields[i].field : i \in 1 .. Len(ResultFields)}
                    \cup {RecommendationFields[i].field : i \in 1 .. Len(RecommendationFields)}
              |-> IF \E i \in 1 .. Len(ResultFields) : ResultFields[i].field = f
                  THEN result[ResultFields[
                           CHOOSE i \in 1 .. Len(ResultFields) : ResultFields[i].field = f].key]
                  ELSE recommendation[RecommendationFields[
                           CHOOSE i \in 1 .. Len(RecommendationFields) :
                               RecommendationFields[i].field = f].key]]

\* The analysis the handler obtains: comprehensive_analysis on the request
\* as a dict (the local `result`), as a one-element set.
analysis_of_request(engine, investment_input) ==
    comprehensive_analysis(engine, investment_input)

\* The response of analyze_investment to a valid body, as a one-element
\* set.  analytics is model_manager.analytics: None or Some(engine).
analyze_investment(analytics, investment_input) ==
    IF analytics = None
    THEN {HTTPException(503, <<"Analytics not available. Models may not be loaded.">>)}
    ELSE {IF Raised(result) THEN HTTPException(500, Str(result))
          ELSE LET recommendation == investment_recommendation(analytics[1], result)
                   response == InvestmentAnalysisResponse(result, recommendation)
               IN  IF Raised(response) THEN HTTPException(500, Str(response))
                   ELSE [status_code |-> 200, body |-> response]
          : result \in analysis_of_request(analytics[1], investment_input)}

----------------------------------------------------------------------------
(* The inputs the operations are called with *)

MaxYears == 3

\* Holding periods: none, the short ones, and the default of five years.
Years == (0 .. MaxYears) \cup {5}

\* Holding periods of calculate_roi and comprehensive_analysis: those, and one
\* so long that 1.04 ** years is beyond the range of a float.
HoldingPeriods == Years \cup {20000}

Prices == {Num(0), Num(250000), Num(500000)}

Amounts == {Num(0), Num(5), Num(8), Num(50), Num(5000), Num(8000), Num(30000)}

Rates == {None, Some(Num(0)), Some(R(1, 10)), Some(R(-1, 20))}

\* Metric values on, just above and away from every threshold of the rubric.
RoiInputs == {Num(-20), Num(0), Num(15), Num(16), Num(30), Num(31), R(4367, 100), Num(50), Num(51)}

YieldInputs == {Num(-3), Num(0), Num(4), R(9, 2), Num(6), Num(7)}

CapRateInputs == {Num(-3), R(22, 5), Num(5), R(11, 2), Num(8), Num(9)}

CashFlowInputs == {Num(-1000), Num(0), Num(1)}

\* The records with `required` and any of the `optional` keys.
Optional(required, key, values) ==
    required \cup {[k \in DOMAIN r \cup {key} |-> IF k = key THEN v ELSE r[k]] : r \in required, v \in values}

EngineData ==
    Optional(Optional(Optional({[purchase_price |-> p] : p \in Prices},
                               "annual_rental_income", Amounts),
                      "operating_expenses", Amounts),
             "holding_period_years", HoldingPeriods)

\* The loan fields of a request (main.py, InvestmentInput): down payment in
\* percent, yearly interest rate in percent, term in years.
LoanParameters ==
    {[down_payment_percent |-> Num(20), loan_interest_rate |-> R(15, 2),
      loan_term_years |-> 30],
     [down_payment_percent |-> Num(0), loan_interest_rate |-> Num(30),
      loan_term_years |-> 1]}

LoanKeys == {"down_payment_percent", "loan_interest_rate", "loan_term_years"}

Restrict(d, keys) == [k \in DOMAIN d \cap keys |-> d[k]]

\* property_data as callers build it: the four keys the engine reads, with
\* or without the loan fields next to them.
PropertyData == EngineData \cup {loan @@ d : loan \in LoanParameters, d \in EngineData}

\* Valid bodies of POST /analyze (InvestmentInput): a positive price, the
\* loan fields, the monthly rent, the three yearly costs, the two rates in
\* percent and the holding period.
InvestmentInputs ==
    {[purchase_price           |-> p,
      down_payment_percent     |-> loan.down_payment_percent,
      loan_interest_rate       |-> loan.loan_interest_rate,
      loan_term_years          |-> loan.loan_term_years,
      monthly_rental_income    |-> rent,
      annual_property_tax      |-> tax,
      annual_insurance         |-> Num(5),
      annual_maintenance       |-> maintenance,
      vacancy_rate             |-> Num(5),
      annual_appreciation_rate |-> Num(3),
      holding_period_years     |-> y]
     : p \in Prices \ {Zero}, loan \in LoanParameters,
       rent \in {Num(0), Num(2500)}, tax \in {Num(0), Num(5000)},
       maintenance \in {Num(0), Num(8)}, y \in {1, 5}}

AnalysisInputs ==
    {[roi          |-> [roi_percentage |-> r],
      rental_yield |-> [net_yield_percentage |-> y],
      cap_rate     |-> [cap_rate_percentage |-> c],
      cash_flow    |-> [annual_cash_flow |-> f]]
     : r \in RoiInputs, y \in YieldInputs, c \in CapRateInputs, f \in CashFlowInputs}

----------------------------------------------------------------------------
(* The model manager (backend/src/api/main.py, class ModelManager)          *)
(*                                                                         *)
(* The manager holds the components the endpoints use.  A load reads the   *)
(* model directory; what it finds there is the argument `files` of the     *)
(* operators below: whether the directory exists, its listing, and what    *)
(* unpickling preprocessor.pkl and parsing metadata.json give.  A          *)
(* download from the bucket only changes what the directory holds, and     *)
(* its failure is swallowed, so it is part of `files`.  The result of a    *)
(* method is the manager after the call together with the value returned   *)
(* or the exception raised.                                                *)

\* ModelManager.__init__: nothing loaded; the flag comes from the
\* environment variable ALLOW_STARTUP_WITHOUT_MODELS.
ModelManager(allow_startup_without_models) ==
    [preprocessor   |-> None,
     models         |-> None,
     analytics      |-> None,
     explainability |-> None,
     chatbot        |-> None,
     metadata       |-> None,
     models_loaded  |-> FALSE,
     last_loaded    |-> None,
     load_error     |-> None,
     allow_startup_without_models |-> allow_startup_without_models]

\* A file name, as its stem and its extension.
File(stem, ext) == [stem |-> stem, ext |-> ext]

\* The elements of a list.
Range(s) == {s[i] : i \in DOMAIN s}

FileNotFoundError(message) == [exception |-> "FileNotFoundError", message |-> message]

\* What joblib.load raises for a file that is no pickle.
UnpicklingError == [exception |-> "UnpicklingError", message |-> <<"invalid load key, 'x'.">>]

\* What json.load raises for a file that is no JSON.
JSONDecodeError ==
    [exception |-> "JSONDecodeError",
     message   |-> <<"Expecting value: line 1 column 1 (char 0)">>]

\* What a call raises for a keyword its function does not take.
TypeError(function, keyword) ==
    [exception |-> "TypeError",
     message   |-> <<function, "() got an unexpected keyword argument '", keyword, "'">>]

\* RealEstatePredictiveModels(): no models, and no best model, which only
\* training sets.
RealEstatePredictiveModels == [models |-> {}, best_model_name |-> None]

\* RealEstatePredictiveModels.load_models: one entry of self.models per
\* .pkl or .h5 file of the directory, read from the directory's name
\* followed at once by the file's name: without a separator at the end of
\* the directory's name the first read finds no file.  self.models is
\* modelled as the set of its keys; best_model_name is left as it was.
load_models(slf, directory, listdir) ==
    LET model_files == SelectSeq(listdir, LAMBDA f : f.ext \in {"pkl", "h5"})
    IN  IF model_files # <<>> /\ ~directory.ends_with_separator
        THEN FileNotFoundError(<<"[Errno 2] No such file or directory: '",
                                 directory.name, Head(model_files).stem, ".",
                                 Head(model_files).ext, "'">>)
        ELSE [slf EXCEPT !.models = slf.models \cup {f.stem : f \in Range(model_files)}]

\* The files load_all_models requires, in the order it checks them.
required_files == <<File("preprocessor", "pkl"), File("metadata", "json")>>

\* The value returned by a method.
Returns(value) == [returned |-> value]

\* The names of a list of files, as the pieces of its text.
RECURSIVE FileNames(_)
FileNames(fs) ==
    IF fs = <<>> THEN <<>>
    ELSE <<Head(fs).stem, ".", Head(fs).ext>> \o FileNames(Tail(fs))

\* An except clause that returns False whatever the flag.
except_Exception_swallowing(slf, e) ==
    [manager |-> [slf EXCEPT !.load_error = Some(Str(e))],
     result  |-> Returns("False")]

\* The except clause of load_all_models: the failure text is kept, and the
\* flag decides between returning False and raising the exception again.
except_Exception(slf, e) ==
    [manager |-> [slf EXCEPT !.load_error = Some(Str(e))],
     result  |-> IF slf.allow_startup_without_models THEN Returns("False") ELSE e]

\* The argument model= of the call that constructs the explainability
\* wrapper: self.models.models[self.models.best_model_name], a KeyError for
\* a name that is no key.  str of a KeyError is the repr of the key.
best_model_of(models) ==
    IF models.best_model_name = None
    THEN [exception |-> "KeyError", message |-> <<"None">>]
    ELSE IF models.best_model_name[1] \notin models.models
    THEN KeyErrorOf(models.best_model_name[1])
    ELSE [model |-> models.best_model_name[1]]

\* ModelManager.load_all_models.  The steps run in the order of the code
\* and the first failure ends the load in the except clause, with the
\* attributes assigned so far.  The explainability wrapper is constructed
\* with the keywords model and preprocessor, while its constructor
\* (explainability.py, line 14) takes model, X_train and feature_names: the
\* call raises whenever its arguments can be evaluated, so no load gets to
\* the statements after it (the chatbot, models_loaded, last_loaded, the
\* return of True).
load_all_models(slf, files) ==
    LET missing_files == SelectSeq(required_files, LAMBDA f : f \notin Range(files.listdir))
        with_preprocessor == [slf EXCEPT !.preprocessor = Some(files.preprocessor_pkl)]
        with_models == [with_preprocessor EXCEPT !.models = Some(RealEstatePredictiveModels)]
        loaded == load_models(RealEstatePredictiveModels, files.local_model_path, files.listdir)
        with_loaded == [with_preprocessor EXCEPT !.models = Some(loaded)]
        with_analytics == [with_loaded EXCEPT !.analytics = Some(InvestmentAnalytics)]
        with_metadata == [with_analytics EXCEPT !.metadata = Some(files.metadata_json)]
    IN  IF ~files.path_exists
        THEN except_Exception(slf, FileNotFoundError(<<"Model path not found: ",
                                                     files.local_model_path.name>>))
        ELSE IF missing_files # <<>>
        THEN except_Exception(slf, FileNotFoundError(<<"Missing required files: ">>
                                                       \o FileNames(missing_files)))
        ELSE IF Raised(files.preprocessor_pkl)
        THEN except_Exception(slf, files.preprocessor_pkl)
        ELSE IF Raised(loaded)
        THEN except_Exception(with_models, loaded)
        ELSE IF Raised(files.metadata_json)
        THEN except_Exception(with_analytics, files.metadata_json)
        ELSE IF Raised(best_model_of(loaded))
        THEN except_Exception(with_metadata, best_model_of(loaded))
        ELSE except_Exception(with_metadata, TypeError("ModelExplainability.__init__", "preprocessor"))

\* A reload whose reset clears the metadata as well.
reload_models_clearing_metadata(slf, files) ==
    load_all_models([slf EXCEPT !.preprocessor = None,
                                !.models = None,
                                !.analytics = None,
                                !.explainability = None,
                                !.metadata = None,
                                !.models_loaded = FALSE],
                    files)

\* A reload whose reset leaves the analytics in place.
reload_models_keeping_analytics(slf, files) ==
    load_all_models([slf EXCEPT !.preprocessor = None,
                                !.models = None,
                                !.explainability = None,
                                !.models_loaded = FALSE],
                    files)

\* ModelManager.reload_models: the reset, then the load.
reload_models(slf, files) ==
    load_all_models([slf EXCEPT !.preprocessor = None,
                                !.models = None,
                                !.analytics = None,
                                !.explainability = None,
                                !.models_loaded = FALSE],
                    files)

\* A readiness that looks at the models alone.
is_ready_models_only(slf) == slf.models # None

\* ModelManager.is_ready
is_ready(slf) == slf.models_loaded /\ slf.models # None

\* Python's truth value of the metadata: None and the empty dict are false.
Truthy(metadata) == metadata # None /\ DOMAIN metadata[1] # {}

\* dict.get of the metadata, None for a key it does not have.
MetadataGet(metadata, key) ==
    IF key \in DOMAIN metadata[1] THEN Some(metadata[1][key]) ELSE None

\* ModelManager.get_status
get_status(slf) ==
    [models_loaded            |-> slf.models_loaded,
     preprocessor_loaded      |-> slf.preprocessor # None,
     analytics_available      |-> slf.analytics # None,
     explainability_available |-> slf.explainability # None,
     chatbot_available        |-> slf.chatbot # None,
     model_info               |-> IF Truthy(slf.metadata)
                                  THEN Some([best_model |-> MetadataGet(slf.metadata, "best_model"),
                                             trained_at |-> MetadataGet(slf.metadata, "trained_at")])
                                  ELSE None,
     last_loaded              |-> slf.last_loaded,
     error_message            |-> slf.load_error]

----------------------------------------------------------------------------
(* The endpoints that use the manager (backend/src/api/main.py).  A        *)
(* response is its status code with its body or, for an HTTPException,     *)
(* its detail; `read` is the set of the manager's components the handler   *)
(* has used by then.  Timestamps are left out of the bodies.               *)

\* GET /ready
readiness_check(mm) ==
    IF ~is_ready(mm)
    THEN HTTPException(503, [status  |-> "not_ready",
                             message |-> "Models not loaded yet. Check /models/status for details.",
                             error   |-> mm.load_error])
    ELSE [status_code |-> 200, body |-> [status |-> "ready", models_loaded |-> TRUE]]

\* GET /models/status
model_status(mm) == [status_code |-> 200, body |-> get_status(mm)]

\* GET /models/info: 503 without metadata; a key the metadata lacks is a
\* KeyError no handler catches, which the framework answers with 500.
model_info(mm) ==
    IF ~Truthy(mm.metadata)
    THEN HTTPException(503, <<"Models not loaded. Upload models and call POST /admin/reload">>)
    ELSE IF ~({"best_model", "trained_at", "results"} \subseteq DOMAIN mm.metadata[1])
    THEN HTTPException(500, <<"Internal Server Error">>)
    ELSE [status_code |-> 200,
          body |-> [best_model    |-> mm.metadata[1].best_model,
                    trained_at    |-> mm.metadata[1].trained_at,
                    all_models    |-> DOMAIN mm.metadata[1].results,
                    model_metrics |-> mm.metadata[1].results,
                    feature_names |-> Get(mm.metadata[1], "feature_names", <<>>)]]

\* POST /admin/reload: the manager after the reload, and the response.
admin_reload(mm, files) ==
    LET reloaded == reload_models(mm, files)
        after == reloaded.manager
    IN  [manager  |-> after,
         response |->
            IF Raised(reloaded.result)
            THEN HTTPException(500, <<"Failed to reload models: ">> \o Str(reloaded.result))
            ELSE IF reloaded.result = Returns("True")
            THEN [status_code |-> 200,
                  body |-> [status     |-> "success",
                            message    |-> "Models reloaded successfully",
                            model_info |-> [best_model |-> MetadataGet(after.metadata, "best_model"),
                                            trained_at |-> MetadataGet(after.metadata, "trained_at")]]]
            ELSE [status_code |-> 200,
                  body |-> [status  |-> "partial_success",
                            message |-> "Reload attempted but models not available",
                            error   |-> after.load_error]]]

\* startup_event: the manager after the load; the handler returns nothing,
\* or lets the exception of the load through, which ends the startup.
startup_event(mm, files) ==
    LET loaded == load_all_models(mm, files)
    IN  [manager |-> loaded.manager,
         result  |-> IF Raised(loaded.result) THEN loaded.result ELSE NoResult]

\* The responses POST /predict can give to a valid body.  Beyond the gate
\* the handler runs the preprocessor and the models and names the best
\* model of the metadata; any failure there is answered with 500.
predict_price(mm) ==
    IF ~is_ready(mm)
    THEN {[response |-> HTTPException(503, <<"Models not available. Please wait or contact administrator.">>),
           read     |-> {}]}
    ELSE {[response |-> HTTPException(500, <<"prediction failed">>),
           read     |-> {"preprocessor", "models"}]}
         \cup
         {[response |-> [status_code |-> 200,
                         body |-> [model_used |-> mm.metadata[1].best_model]],
           read     |-> {"preprocessor", "models", "metadata"}]
          : ok \in {TRUE} \cap {mm.metadata # None /\ "best_model" \in DOMAIN mm.metadata[1]}}

\* The responses POST /explain can give to a valid body.
explain_prediction(mm) ==
    IF ~is_ready(mm)
    THEN {[response |-> HTTPException(503, <<"Explainability not available. Models may not be loaded.">>),
           read     |-> {}]}
    ELSE {[response |-> [status_code |-> 200, body |-> [explained |-> TRUE]],
           read     |-> {"preprocessor", "explainability"}],
          [response |-> HTTPException(500, <<"explanation failed">>),
           read     |-> {"preprocessor", "explainability"}]}

----------------------------------------------------------------------------
(* The state machine: one engine and a caller.  `call` is the call the      *)
(* caller last made and `ret` what it returned; the caller makes a call,   *)
(* may pass an analysis on to investment_recommendation, and drops the     *)
(* result before its next request.  `threads` are the callers of the       *)
(* concurrent specification further down, idle in this one.                *)

NoCall == [op |-> "none", args |-> <<>>]

\* The threads that call the one engine concurrently.
Threads == {"t1", "t2"}

\* A thread between two calls.  `overlapped` is the set of calls other
\* threads were inside when this thread's call returned.
IdleThread == [pc |-> "idle", call |-> NoCall, ret |-> NoResult, overlapped |-> {}]

Idle == call = NoCall

Init ==
    /\ self = InvestmentAnalytics
    /\ call = NoCall
    /\ ret = NoResult
    /\ threads = [t \in Threads |-> IdleThread]
    /\ model_manager = ModelManager(TRUE)

CalculateRoi ==
    /\ Idle
    /\ \E p \in Prices, inc \in Amounts, exp \in Amounts, y \in HoldingPeriods :
        /\ call' = [op |-> "calculate_roi",
                    args |-> [purchase_price |-> p, annual_rental_income |-> inc,
                              operating_expenses |-> exp, holding_period_years |-> y]]
        /\ ret' = calculate_roi(self, p, inc, exp, y)
        /\ UNCHANGED <<self, threads, model_manager>>

CalculateRentalYield ==
    /\ Idle
    /\ \E p \in Prices, inc \in Amounts :
        /\ call' = [op |-> "calculate_rental_yield",
                    args |-> [purchase_price |-> p, annual_rental_income |-> inc]]
        /\ ret' = calculate_rental_yield(self, p, inc)
        /\ UNCHANGED <<self, threads, model_manager>>

CalculateAppreciation ==
    /\ Idle
    /\ \E p \in Prices, y \in Years, rate \in Rates :
        /\ call' = [op |-> "calculate_appreciation",
                    args |-> [purchase_price |-> p, years |-> y,
                              appreciation_rate |-> rate]]
        /\ ret' = calculate_appreciation(self, p, y, rate)
        /\ UNCHANGED <<self, threads, model_manager>>

CalculateCashFlow ==
    /\ Idle
    /\ \E p \in Prices, inc \in Amounts, mortgage \in {Num(0), Num(50)},
       tax \in {Num(0), Num(8)}, ins \in {Num(0), Num(5)},
       maint \in {Num(0), Num(1), Num(8)} :
        /\ call' = [op |-> "calculate_cash_flow",
                    args |-> [purchase_price |-> p, annual_rental_income |-> inc,
                              mortgage_payment |-> mortgage, property_tax |-> tax,
                              insurance |-> ins, maintenance |-> maint]]
        /\ ret' = calculate_cash_flow(self, p, inc, mortgage, tax, ins, maint)
        /\ UNCHANGED <<self, threads, model_manager>>

CalculateCapRate ==
    /\ Idle
    /\ \E p \in Prices, inc \in Amounts, exp \in {None} \cup {Some(a) : a \in Amounts} :
        /\ call' = [op |-> "calculate_cap_rate",
                    args |-> [purchase_price |-> p, annual_rental_income |-> inc,
                              operating_expenses |-> exp]]
        /\ ret' = calculate_cap_rate(self, p, inc, exp)
        /\ UNCHANGED <<self, threads, model_manager>>

CalculateBreakEvenPoint ==
    /\ Idle
    /\ \E p \in Prices, inc \in Amounts, exp \in Amounts :
        /\ call' = [op |-> "calculate_break_even_point",
                    args |-> [purchase_price |-> p, annual_rental_income |-> inc,
                              annual_expenses |-> exp]]
        /\ ret' \in calculate_break_even_point(self, p, inc, exp)
        /\ UNCHANGED <<self, threads, model_manager>>

ComprehensiveAnalysis ==
    /\ Idle
    /\ \E property_data \in PropertyData :
        /\ call' = [op |-> "comprehensive_analysis",
                    args |-> [property_data |-> property_data]]
        /\ ret' \in comprehensive_analysis(self, property_data)
        /\ UNCHANGED <<self, threads, model_manager>>

\* investment_recommendation on any record of the four metrics.
InvestmentRecommendation ==
    /\ Idle
    /\ \E analysis \in AnalysisInputs :
        /\ call' = [op |-> "investment_recommendation",
                    args |-> [analysis |-> analysis]]
        /\ ret' = investment_recommendation(self, analysis)
        /\ UNCHANGED <<self, threads, model_manager>>

\* investment_recommendation on the analysis comprehensive_analysis returned,
\* as the dashboard and the API call it.
RecommendAnalysis ==
    /\ call.op = "comprehensive_analysis"
    /\ ~Raised(ret)
    /\ call' = [op |-> "investment_recommendation", args |-> [analysis |-> ret]]
    /\ ret' = investment_recommendation(self, ret)
    /\ UNCHANGED <<self, threads, model_manager>>

\* POST /analyze with a valid body, while model_manager.analytics is None
\* or the engine.
AnalyzeInvestment ==
    /\ Idle
    /\ \E analytics \in {None, Some(self)}, investment_input \in InvestmentInputs :
        /\ call' = [op |-> "POST /analyze",
                    args |-> [investment_input |-> investment_input,
                              analytics |-> analytics]]
        /\ ret' \in analyze_investment(analytics, investment_input)
        /\ UNCHANGED <<self, threads, model_manager>>

\* The end of a request: the result is dropped.
Discard ==
    /\ ~Idle
    /\ call' = NoCall
    /\ ret' = NoResult
    /\ UNCHANGED <<self, threads, model_manager>>

Next ==
    \/ CalculateRoi
    \/ CalculateRentalYield
    \/ CalculateAppreciation
    \/ CalculateCashFlow
    \/ CalculateCapRate
    \/ CalculateBreakEvenPoint
    \/ ComprehensiveAnalysis
    \/ InvestmentRecommendation
    \/ RecommendAnalysis
    \/ AnalyzeInvestment
    \/ Discard

Spec == Init /\ [][Next]_vars

----------------------------------------------------------------------------
(* Concurrent calls on one engine.  A call is two steps: the thread enters *)
(* the method, where the assignments the method makes to the attributes of *)
(* self take effect, and the method returns, with the result computed from *)
(* the attributes as they are then.  Any steps of other threads may lie    *)
(* between the two.                                                        *)

\* The attributes of self after a method that stores an explicit
\* appreciation_rate as the engine's rate
\* (self.default_appreciation_rate = appreciation_rate).
attributes_after_storing_rate(slf, c) ==
    IF c.op = "calculate_appreciation" /\ c.args.appreciation_rate # None
    THEN [slf EXCEPT !.default_appreciation_rate = c.args.appreciation_rate[1]]
    ELSE slf

\* The attributes of self after the method of call c: no method of the
\* class assigns to an attribute of self (calculate_appreciation assigns
\* the default to its local appreciation_rate, not the reverse).
attributes_after(slf, c) == slf

\* The value the method of call c returns on an engine with attributes slf,
\* or the exception it ends in, as a one-element set.
Apply(slf, c) ==
    LET a == c.args
    IN  CASE c.op = "calculate_roi" ->
                {calculate_roi(slf, a.purchase_price, a.annual_rental_income,
                               a.operating_expenses, a.holding_period_years)}
          [] c.op = "calculate_rental_yield" ->
                {calculate_rental_yield(slf, a.purchase_price, a.annual_rental_income)}
          [] c.op = "calculate_appreciation" ->
                {calculate_appreciation(slf, a.purchase_price, a.years,
                                        a.appreciation_rate)}
          [] c.op = "calculate_cash_flow" ->
                {calculate_cash_flow(slf, a.purchase_price, a.annual_rental_income,
                                     a.mortgage_payment, a.property_tax,
                                     a.insurance, a.maintenance)}
          [] c.op = "calculate_cap_rate" ->
                {calculate_cap_rate(slf, a.purchase_price, a.annual_rental_income,
                                    a.operating_expenses)}
          [] c.op = "calculate_break_even_point" ->
                calculate_break_even_point(slf, a.purchase_price,
                                           a.annual_rental_income, a.annual_expenses)
          [] c.op = "comprehensive_analysis" ->
                comprehensive_analysis(slf, a.property_data)
          [] c.op = "investment_recommendation" ->
                {investment_recommendation(slf, a.analysis)}

\* The calls the threads choose from: every operation, comprehensive_analysis
\* on three properties and calculate_appreciation with and without a rate.
ThreadCalls ==
    {[op |-> "comprehensive_analysis", args |-> [property_data |-> d]]
       : d \in {[purchase_price |-> Num(250000)],
                [purchase_price |-> Num(500000), annual_rental_income |-> Num(30000),
                 operating_expenses |-> Num(8000), holding_period_years |-> 5],
                [purchase_price |-> Num(250000), annual_rental_income |-> Num(0),
                 holding_period_years |-> 2]}}
    \cup {[op |-> "calculate_appreciation",
           args |-> [purchase_price |-> Num(250000), years |-> 2,
                     appreciation_rate |-> rate]]
            : rate \in {None, Some(R(1, 10)), Some(R(-1, 20))}}
    \cup {[op |-> "calculate_roi",
           args |-> [purchase_price |-> Num(500000), annual_rental_income |-> Num(30000),
                     operating_expenses |-> Num(8000), holding_period_years |-> 5]],
          [op |-> "calculate_rental_yield",
           args |-> [purchase_price |-> Num(250000), annual_rental_income |-> Num(5000)]],
          [op |-> "calculate_cash_flow",
           args |-> [purchase_price |-> Num(250000), annual_rental_income |-> Num(5000),
                     mortgage_payment |-> Zero, property_tax |-> Zero,
                     insurance |-> Zero, maintenance |-> Zero]],
          [op |-> "calculate_cap_rate",
           args |-> [purchase_price |-> Num(250000), annual_rental_income |-> Num(5000),
                     operating_expenses |-> None]],
          [op |-> "calculate_break_even_point",
           args |-> [purchase_price |-> Num(500000), annual_rental_income |-> Num(30000),
                     annual_expenses |-> Num(8000)]],
          [op |-> "investment_recommendation",
           args |-> [analysis |->
                        [roi          |-> [roi_percentage |-> R(4367, 100)],
                         rental_yield |-> [net_yield_percentage |-> Zero],
                         cap_rate     |-> [cap_rate_percentage |-> R(44, 10)],
                         cash_flow    |-> [annual_cash_flow |-> Num(23500)]]]]}

\* Thread t enters a method.
Invoke(t) ==
    /\ threads[t].pc = "idle"
    /\ \E c \in ThreadCalls :
        /\ threads' = [threads EXCEPT ![t] = [pc |-> "running", call |-> c,
                                              ret |-> NoResult, overlapped |-> {}]]
        /\ self' = attributes_after(self, c)
    /\ UNCHANGED <<call, ret, model_manager>>

\* The method thread t is in returns.
Return(t) ==
    /\ threads[t].pc = "running"
    /\ \E r \in Apply(self, threads[t].call) :
        threads' = [threads EXCEPT ![t] =
                       [pc |-> "returned", call |-> threads[t].call, ret |-> r,
                        overlapped |-> {threads[u].call :
                                          u \in {v \in Threads \ {t} :
                                                   threads[v].pc = "running"}}]]
    /\ UNCHANGED <<self, call, ret, model_manager>>

\* Thread t drops the result.
Drop(t) ==
    /\ threads[t].pc = "returned"
    /\ threads' = [threads EXCEPT ![t] = IdleThread]
    /\ UNCHANGED <<self, call, ret, model_manager>>

NextConcurrent == \E t \in Threads : Invoke(t) \/ Return(t) \/ Drop(t)

SpecConcurrent == Init /\ [][NextConcurrent]_vars

----------------------------------------------------------------------------
(* The model manager and its endpoints as a state machine.  The manager    *)
(* is an object of the module and the handlers are functions of it, so     *)
(* the operations may be called in any order; each call finds the model    *)
(* directory in one of the conditions of ModelFiles.  `call` keeps, with   *)
(* the operation and its input, the manager as it was before the call.     *)

\* LOCAL_MODEL_PATH: the default, and the same path with a separator at
\* its end.
SavedModels(ends_with_separator) ==
    [name |-> "models/saved_models", ends_with_separator |-> ends_with_separator]

\* What joblib.load gives for a preprocessor.pkl written by the trainer.
Preprocessor == [object |-> "RealEstateDataPreprocessor"]

\* A metadata.json as the trainer writes it.
TrainedMetadata(best_model, trained_at) ==
    [best_model    |-> best_model,
     trained_at    |-> trained_at,
     results       |-> [name \in {"xgboost", "lightgbm"} |-> [r2_score |-> "0.9"]],
     feature_names |-> <<"area", "bedrooms">>]

\* The contents of metadata.json: two trainings, the empty object, and a
\* file that is no JSON.
MetadataFiles ==
    {TrainedMetadata("xgboost", "2024-01-01T00:00:00"),
     TrainedMetadata("lightgbm", "2024-06-01T00:00:00"),
     [key \in {} |-> None],
     JSONDecodeError}

\* The listing of a complete model directory, and the incomplete ones.
CompleteListing ==
    <<File("preprocessor", "pkl"), File("metadata", "json"), File("xgboost", "pkl")>>

IncompleteListings ==
    {<<>>, <<File("metadata", "json")>>, <<File("preprocessor", "pkl")>>}

\* The conditions a load can find the model directory in: absent, lacking
\* a required file, or complete, the last with each path, each
\* preprocessor.pkl and each metadata.json.
ModelFiles ==
    {[path_exists      |-> FALSE,
      local_model_path |-> SavedModels(FALSE),
      listdir          |-> <<>>,
      preprocessor_pkl |-> Preprocessor,
      metadata_json    |-> JSONDecodeError]}
    \cup
    {[path_exists      |-> TRUE,
      local_model_path |-> SavedModels(FALSE),
      listdir          |-> l,
      preprocessor_pkl |-> Preprocessor,
      metadata_json    |-> JSONDecodeError] : l \in IncompleteListings}
    \cup
    {[path_exists      |-> TRUE,
      local_model_path |-> SavedModels(s),
      listdir          |-> CompleteListing,
      preprocessor_pkl |-> p,
      metadata_json    |-> m]
     : s \in BOOLEAN, p \in {Preprocessor, UnpicklingError}, m \in MetadataFiles}

\* The manager of the module, with the flag either way.
InitManager ==
    /\ self = InvestmentAnalytics
    /\ call = NoCall
    /\ ret = NoResult
    /\ threads = [t \in Threads |-> IdleThread]
    /\ \E flag \in BOOLEAN : model_manager = ModelManager(flag)

\* A call of model_manager.load_all_models().
LoadAllModels ==
    /\ Idle
    /\ \E files \in ModelFiles :
        LET done == load_all_models(model_manager, files)
        IN  /\ call' = [op |-> "load_all_models", args |-> [files |-> files],
                        before |-> model_manager]
            /\ ret' = done.result
            /\ model_manager' = done.manager
    /\ UNCHANGED <<self, threads>>

\* A call of model_manager.reload_models().
ReloadModels ==
    /\ Idle
    /\ \E files \in ModelFiles :
        LET done == reload_models(model_manager, files)
        IN  /\ call' = [op |-> "reload_models", args |-> [files |-> files],
                        before |-> model_manager]
            /\ ret' = done.result
            /\ model_manager' = done.manager
    /\ UNCHANGED <<self, threads>>

\* The startup of the application.
StartupEvent ==
    /\ Idle
    /\ \E files \in ModelFiles :
        LET done == startup_event(model_manager, files)
        IN  /\ call' = [op |-> "startup", args |-> [files |-> files],
                        before |-> model_manager]
            /\ ret' = done.result
            /\ model_manager' = done.manager
    /\ UNCHANGED <<self, threads>>

\* POST /admin/reload
AdminReload ==
    /\ Idle
    /\ \E files \in ModelFiles :
        LET done == admin_reload(model_manager, files)
        IN  /\ call' = [op |-> "POST /admin/reload", args |-> [files |-> files],
                        before |-> model_manager]
            /\ ret' = done.response
            /\ model_manager' = done.manager
    /\ UNCHANGED <<self, threads>>

\* GET /ready
ReadinessCheck ==
    /\ Idle
    /\ call' = [op |-> "GET /ready", args |-> <<>>, before |-> model_manager]
    /\ ret' = readiness_check(model_manager)
    /\ UNCHANGED <<self, threads, model_manager>>

\* GET /models/status
ModelStatus ==
    /\ Idle
    /\ call' = [op |-> "GET /models/status", args |-> <<>>, before |-> model_manager]
    /\ ret' = model_status(model_manager)
    /\ UNCHANGED <<self, threads, model_manager>>

\* GET /models/info
ModelInfo ==
    /\ Idle
    /\ call' = [op |-> "GET /models/info", args |-> <<>>, before |-> model_manager]
    /\ ret' = model_info(model_manager)
    /\ UNCHANGED <<self, threads, model_manager>>

\* POST /predict with a valid body.
PredictPrice ==
    /\ Idle
    /\ call' = [op |-> "POST /predict", args |-> <<>>, before |-> model_manager]
    /\ ret' \in predict_price(model_manager)
    /\ UNCHANGED <<self, threads, model_manager>>

\* POST /explain with a valid body.
ExplainPrediction ==
    /\ Idle
    /\ call' = [op |-> "POST /explain", args |-> <<>>, before |-> model_manager]
    /\ ret' \in explain_prediction(model_manager)
    /\ UNCHANGED <<self, threads, model_manager>>

\* POST /analyze with a valid body, served with the manager's analytics.
AnalyzeWithManager ==
    /\ Idle
    /\ \E investment_input \in InvestmentInputs :
        /\ call' = [op |-> "POST /analyze",
                    args |-> [investment_input |-> investment_input,
                              analytics |-> model_manager.analytics],
                    before |-> model_manager]
        /\ ret' \in analyze_investment(model_manager.analytics, investment_input)
    /\ UNCHANGED <<self, threads, model_manager>>

NextManager ==
    \/ LoadAllModels
    \/ ReloadModels
    \/ StartupEvent
    \/ AdminReload
    \/ ReadinessCheck
    \/ ModelStatus
    \/ ModelInfo
    \/ PredictPrice
    \/ ExplainPrediction
    \/ AnalyzeWithManager
    \/ Discard

SpecManager == InitManager /\ [][NextManager]_vars

----------------------------------------------------------------------------
(* calculate_rental_yield on Python's floats.  The caller passes a price   *)
(* and an income that are whole numbers; `call` keeps them as exact        *)
(* numbers and `ret` is the result in doubles.                             *)

\* Prices from 0 to 500000 and incomes from 0 to 54000.
PricesInFloats == {Num(50000 * k) : k \in 0 .. 10}

IncomesInFloats == {Num(6000 * k) : k \in 0 .. 9}

CalculateRentalYieldInFloats ==
    /\ Idle
    /\ \E p \in PricesInFloats, inc \in IncomesInFloats :
        /\ call' = [op |-> "calculate_rental_yield in floats",
                    args |-> [purchase_price |-> p, annual_rental_income |-> inc]]
        /\ ret' = calculate_rental_yield_in_floats(InFloats(self), FOfRational(p),
                                                   FOfRational(inc))
    /\ UNCHANGED <<self, threads, model_manager>>

NextInFloats ==
    \/ CalculateRentalYieldInFloats
    \/ Discard

SpecInFloats == Init /\ [][NextInFloats]_vars

----------------------------------------------------------------------------
(* Properties of investment_recommendation *)

Recommended == call.op = "investment_recommendation"

\* The four metrics investment_recommendation was called with.
RoiArg == call.args.analysis.roi.roi_percentage

YieldArg == call.args.analysis.rental_yield.net_yield_percentage

CapRateArg == call.args.analysis.cap_rate.cap_rate_percentage

CashFlowArg == call.args.analysis.cash_flow.annual_cash_flow

\* C1: whatever the four metrics are, negative ones included, the score that
\* investment_recommendation returns is an integer from 0 to 10.
C1_ScoreBounded == Recommended => ret.score \in 0 .. 10

\* C1 witness: a recommendation that reaches the top score.
C1_Witness == Recommended /\ ret.score = 10 /\ RGt(RoiArg, Num(50))

\* The verdict the bands give a score of 0..10.
BandVerdict(score) ==
    CASE score \in 8 .. 10 -> "STRONG BUY - Excellent investment opportunity"
      [] score \in 5 .. 7  -> "BUY - Good investment potential"
      [] score \in 3 .. 4  -> "HOLD - Consider carefully"
      [] score \in 0 .. 2  -> "AVOID - Poor investment metrics"

\* C2: the overall recommendation is the verdict of the band the score lies
\* in: 8 and above STRONG BUY, 5..7 BUY, 3..4 HOLD, 2 and below AVOID.
C2_VerdictBands ==
    Recommended =>
        /\ ret.score \in 0 .. 10
        /\ ret.overall_recommendation = BandVerdict(ret.score)

\* C2 witness: a score on the lower edge of the STRONG BUY band.
C2_Witness ==
    /\ Recommended
    /\ ret.score = 8
    /\ ret.overall_recommendation = "STRONG BUY - Excellent investment opportunity"

\* The points of the rubric, metric by metric.
RoiPoints(x) ==
    IF RGt(x, Num(50)) THEN 3 ELSE IF RGt(x, Num(30)) THEN 2 ELSE IF RGt(x, Num(15)) THEN 1 ELSE 0

YieldPoints(x) == IF RGt(x, Num(6)) THEN 3 ELSE IF RGt(x, Num(4)) THEN 2 ELSE 0

CapRatePoints(x) == IF RGt(x, Num(8)) THEN 2 ELSE IF RGt(x, Num(5)) THEN 1 ELSE 0

CashFlowPoints(x) == IF RGt(x, Zero) THEN 2 ELSE 0

\* Scenario 4: ROI 43.67 %, net yield 0 %, cap rate 4.4 %, positive cash flow.
Scenario4 ==
    /\ Recommended
    /\ RoiArg = R(4367, 100)
    /\ YieldArg = Zero
    /\ CapRateArg = R(44, 10)
    /\ RGt(CashFlowArg, Zero)

\* C3: the score is the sum of the four tier scores, each taken from its own
\* metric with strict thresholds; scenario 4 scores 4 and is a HOLD.
C3_ScoreIsSumOfTiers ==
    Recommended =>
        /\ ret.score = RoiPoints(RoiArg) + YieldPoints(YieldArg)
                       + CapRatePoints(CapRateArg) + CashFlowPoints(CashFlowArg)
        /\ Scenario4 =>
              /\ ret.score = 4
              /\ ret.overall_recommendation = "HOLD - Consider carefully"

\* C3 witness: scenario 4 has been scored.
C3_Witness == Scenario4 /\ ret.score = 4

RoiMessages ==
    {"Excellent ROI potential", "Good ROI potential", "Moderate ROI potential", "Low ROI - consider other options"}

YieldMessages == {"Strong rental yield", "Acceptable rental yield", "Low rental yield"}

CapRateMessages == {"Attractive cap rate", "Fair cap rate"}

CashFlowMessages == {"Positive cash flow", "Negative cash flow - requires capital"}

\* C4: detailed_recommendations has 3 or 4 entries, the ROI message, the
\* yield message, the cap-rate message if there is one, the cash-flow
\* message, and it has 4 exactly when the cap rate is above 5.
C4_RecommendationList ==
    Recommended =>
        LET recs == ret.detailed_recommendations
        IN  /\ Len(recs) \in {3, 4}
            /\ Len(recs) = 4 <=> RGt(CapRateArg, Num(5))
            /\ recs[1] \in RoiMessages
            /\ recs[2] \in YieldMessages
            /\ Len(recs) = 4 => recs[3] \in CapRateMessages
            /\ recs[Len(recs)] \in CashFlowMessages

\* C4 witness: four entries although ROI, yield and cash flow score nothing.
C4_Witness ==
    /\ Recommended
    /\ RoiPoints(RoiArg) = 0 /\ YieldPoints(YieldArg) = 0 /\ CashFlowPoints(CashFlowArg) = 0
    /\ Len(ret.detailed_recommendations) = 4

----------------------------------------------------------------------------
(* Properties of calculate_break_even_point *)

BreakEvenCalled == call.op = "calculate_break_even_point"

\* annual_rental_income - annual_expenses of the call.
NetIncomeArg == RSub(call.args.annual_rental_income, call.args.annual_expenses)

\* C5: break_even_years is null exactly when the net income is zero or
\* negative, and is purchase_price / net income otherwise; with a null the
\* message is "Property generates negative cash flow".
C5_BreakEvenSentinel ==
    BreakEvenCalled =>
        /\ ~Raised(ret)
        /\ ret.break_even_years = None <=> RLe(NetIncomeArg, Zero)
        /\ RGt(NetIncomeArg, Zero) =>
              ret.break_even_years = Some(RDiv(call.args.purchase_price, NetIncomeArg))
        /\ ret.break_even_years = None =>
              ret.message = <<"Property generates negative cash flow">>

\* C5 witness: a net income of exactly zero gives the null.
C5_Witness ==
    /\ BreakEvenCalled
    /\ call.args.annual_rental_income # Zero
    /\ NetIncomeArg = Zero
    /\ ret.break_even_years = None

\* Scenario 3: price 500000, rental income 5000, expenses 8000.
Scenario3 ==
    /\ BreakEvenCalled
    /\ call.args.purchase_price = Num(500000)
    /\ call.args.annual_rental_income = Num(5000)
    /\ call.args.annual_expenses = Num(8000)

\* C6: every result of calculate_break_even_point has the three fields
\* break_even_years, annual_net_income and message, and scenario 3 reports
\* an annual_net_income of -3000 with a null break_even_years.
C6_ThreeFields ==
    (BreakEvenCalled /\ RGt(call.args.purchase_price, Zero)) =>
        /\ DOMAIN ret = {"break_even_years", "annual_net_income", "message"}
        /\ Scenario3 =>
              /\ ret.annual_net_income = Num(-3000)
              /\ ret.break_even_years = None

----------------------------------------------------------------------------
(* Properties of calculate_appreciation *)

\* calculate_appreciation was called within its precondition.
AppreciationCalled ==
    /\ call.op = "calculate_appreciation"
    /\ RGt(call.args.purchase_price, Zero)
    /\ call.args.years >= 1

\* The rate of the call: the one given, or the engine's default.
RateArg ==
    IF call.args.appreciation_rate = None
    THEN self.default_appreciation_rate
    ELSE call.args.appreciation_rate[1]

\* C7: the schedule has `years` entries numbered 1..years, the first worth
\* purchase_price * (1 + rate), each later one worth the one before it
\* * (1 + rate), and final_value is the value of the last entry.
C7_ScheduleConsistent ==
    AppreciationCalled =>
        LET schedule == ret.appreciation_schedule
            years    == call.args.years
            growth   == RAdd(Num(1), RateArg)
        IN  /\ ~Raised(ret)
            /\ Len(schedule) = years
            /\ \A k \in 1 .. years : schedule[k].year = k
            /\ schedule[1].property_value = RMul(call.args.purchase_price, growth)
            /\ \A k \in 2 .. years :
                  schedule[k].property_value = RMul(schedule[k - 1].property_value, growth)
            /\ ret.final_value = schedule[years].property_value

\* C7 witness: a three-year schedule at a rate other than zero.
C7_Witness ==
    /\ AppreciationCalled
    /\ call.args.years = 3
    /\ RateArg # Zero
    /\ Len(ret.appreciation_schedule) = 3
    /\ ret.final_value = ret.appreciation_schedule[3].property_value
    /\ ret.final_value # call.args.purchase_price

\* C8: every entry's appreciation_amount and appreciation_percentage are
\* taken against purchase_price, and the totals are those of the last entry.
C8_CumulativeAppreciation ==
    AppreciationCalled =>
        LET schedule == ret.appreciation_schedule
            price    == call.args.purchase_price
            last     == schedule[call.args.years]
        IN  /\ ~Raised(ret)
            /\ Len(schedule) = call.args.years
            /\ \A k \in 1 .. Len(schedule) :
                  /\ schedule[k].appreciation_amount =
                         RSub(schedule[k].property_value, price)
                  /\ schedule[k].appreciation_percentage =
                         RMul(RDiv(schedule[k].appreciation_amount, price), Num(100))
            /\ ret.total_appreciation = last.appreciation_amount
            /\ ret.total_appreciation_percentage = last.appreciation_percentage

\* C8 witness: a second-year entry whose amount is not the gain over year one.
C8_Witness ==
    /\ AppreciationCalled
    /\ call.args.years >= 2
    /\ LET schedule == ret.appreciation_schedule
       IN  /\ schedule[2].appreciation_amount =
                  RSub(schedule[2].property_value, call.args.purchase_price)
           /\ schedule[2].appreciation_amount #
                  RSub(schedule[2].property_value, schedule[1].property_value)

----------------------------------------------------------------------------
(* Properties of calculate_roi *)

\* calculate_roi was called with a positive purchase_price and returned.
RoiCalled ==
    /\ call.op = "calculate_roi"
    /\ RGt(call.args.purchase_price, Zero)
    /\ ~Raised(ret)

\* Scenario 1: price 500000, rental income 30000, expenses 8000, 5 years.
Scenario1 ==
    /\ RoiCalled
    /\ call.args.purchase_price = Num(500000)
    /\ call.args.annual_rental_income = Num(30000)
    /\ call.args.operating_expenses = Num(8000)
    /\ call.args.holding_period_years = 5

RoiWithYears(y) ==
    calculate_roi(self, call.args.purchase_price, call.args.annual_rental_income, call.args.operating_expenses, y)

\* C10: with the price, the income and the expenses fixed, a longer holding
\* period gives a strictly larger future_property_value.
C10_FutureValueIncreasing ==
    RoiCalled =>
        \A y \in Years :
            y < call.args.holding_period_years =>
                RLt(RoiWithYears(y).future_property_value, ret.future_property_value)

\* C10 witness: expenses above income, and a longer holding period with a
\* larger future value but a smaller roi_percentage.
C10_Witness ==
    /\ RoiCalled
    /\ RGt(call.args.operating_expenses, call.args.annual_rental_income)
    /\ \E y \in Years :
          /\ 1 <= y /\ y < call.args.holding_period_years
          /\ RLt(RoiWithYears(y).future_property_value, ret.future_property_value)
          /\ RLt(ret.roi_percentage, RoiWithYears(y).roi_percentage)

----------------------------------------------------------------------------
(* comprehensive_analysis: defaults, inert keys, negative outcomes, errors *)

AnalysisData == call.args.property_data

\* comprehensive_analysis was called on a property with a positive price.
AnalysisCalled ==
    /\ call.op = "comprehensive_analysis"
    /\ RGt(AnalysisData.purchase_price, Zero)

\* The three inputs the sub-calculations are to work with: the caller's
\* value where the key is present, the default where it is not.
IncomeUsed ==
    IF "annual_rental_income" \in DOMAIN AnalysisData
    THEN AnalysisData.annual_rental_income
    ELSE RMul(AnalysisData.purchase_price, R(5, 100))

ExpensesUsed ==
    IF "operating_expenses" \in DOMAIN AnalysisData
    THEN AnalysisData.operating_expenses
    ELSE RMul(AnalysisData.purchase_price, R(2, 100))

YearsUsed ==
    IF "holding_period_years" \in DOMAIN AnalysisData
    THEN AnalysisData.holding_period_years
    ELSE 5

SubResults == {"roi", "rental_yield", "appreciation", "cash_flow", "cap_rate", "break_even"}

\* C13: comprehensive_analysis works with 5% of the price as rental income,
\* 2% of the price as operating expenses and 5 years when the caller omits
\* them, with the caller's value (an explicit 0 included) otherwise, and its
\* result holds the six sub-results.
C13_DefaultsOnlyWhenOmitted ==
    (AnalysisCalled /\ ~Raised(ret)) =>
        /\ SubResults \subseteq DOMAIN ret
        /\ ret.roi.total_rental_income = RMul(IncomeUsed, Num(YearsUsed))
        /\ ret.roi.total_expenses = RMul(ExpensesUsed, Num(YearsUsed))
        /\ ret.roi = calculate_roi(self, AnalysisData.purchase_price,
                                   IncomeUsed, ExpensesUsed, YearsUsed)
        /\ Len(ret.appreciation.appreciation_schedule) = YearsUsed
        /\ ret.rental_yield.annual_rental_income = IncomeUsed
        /\ ret.cap_rate.annual_rental_income = IncomeUsed
        /\ ret.cash_flow.effective_rental_income =
               RMul(IncomeUsed, RSub(Num(1), self.default_vacancy_rate))
        /\ ret.break_even \in
               calculate_break_even_point(self, AnalysisData.purchase_price,
                                          IncomeUsed, ExpensesUsed)

\* An explicit income of 0 and an explicit period of 0 years were used as
\* given, next to the default for the omitted operating expenses.
C13_Witness ==
    /\ AnalysisCalled
    /\ "annual_rental_income" \in DOMAIN AnalysisData
    /\ AnalysisData.annual_rental_income = Zero
    /\ "holding_period_years" \in DOMAIN AnalysisData
    /\ AnalysisData.holding_period_years = 0
    /\ "operating_expenses" \notin DOMAIN AnalysisData
    /\ ret.rental_yield.annual_rental_income = Zero
    /\ ret.appreciation.appreciation_schedule = <<>>
    /\ ret.roi.total_expenses = Zero
    /\ ret.break_even.break_even_years = None

\* property_data without its loan fields.
WithoutLoan == Restrict(AnalysisData, DOMAIN AnalysisData \ LoanKeys)

\* The inputs that differ from the call's only in the loan fields.
LoanVariants == {WithoutLoan} \cup {loan @@ WithoutLoan : loan \in LoanParameters}

\* C16: inputs to comprehensive_analysis that differ only in
\* down_payment_percent, loan_interest_rate and loan_term_years give the
\* same analysis and the same recommendation.
C16_LoanParametersInert ==
    call.op = "comprehensive_analysis" =>
        \A other \in LoanVariants :
            /\ ret \in comprehensive_analysis(self, other)
            /\ \A analysis \in comprehensive_analysis(self, other) :
                  ~Raised(analysis) =>
                      investment_recommendation(self, analysis) =
                          investment_recommendation(self, ret)

\* An analysis of a financed property, whose result is also the result for
\* the other loan and for no loan at all.
C16_Witness ==
    /\ AnalysisCalled
    /\ LoanKeys \subseteq DOMAIN AnalysisData
    /\ AnalysisData.loan_interest_rate = R(15, 2)
    /\ AnalysisData.down_payment_percent = Num(20)
    /\ Cardinality(LoanVariants) = 3
    /\ ~Raised(ret)
    /\ ret.cash_flow.total_annual_expenses =
           RMul(AnalysisData.purchase_price, self.default_maintenance_rate)

\* The longest holding period a request may carry (main.py, InvestmentInput).
MaxHoldingPeriod == 50

\* comprehensive_analysis was called within its stated precondition: a
\* positive price and a holding period of at least one year.
AnalysisInDomain == AnalysisCalled /\ YearsUsed >= 1

\* ... and with a holding period no longer than a request may carry.
AnalysisInRange == AnalysisInDomain /\ YearsUsed <= MaxHoldingPeriod

\* investment_recommendation was called on a result of comprehensive_analysis.
RecommendedAnalysis == Recommended /\ SubResults \subseteq DOMAIN call.args.analysis

\* annual_rental_income - purchase_price * (maintenance rate + vacancy rate)
NetRentalIncome ==
    RSub(IncomeUsed,
         RMul(AnalysisData.purchase_price,
              RAdd(self.default_maintenance_rate, self.default_vacancy_rate)))

\* annual_rental_income * (1 - vacancy rate) - purchase_price * maintenance rate
AnnualCashFlow ==
    RSub(RMul(IncomeUsed, RSub(Num(1), self.default_vacancy_rate)),
         RMul(AnalysisData.purchase_price, self.default_maintenance_rate))

\* The analysis returned, with net income, net yield and cash flow as
\* computed, negative or not, and the null break-even where the net income
\* is not positive.
OutcomesReported ==
    /\ ~Raised(ret)
    /\ ret.rental_yield.net_annual_income = NetRentalIncome
    /\ ret.rental_yield.net_yield_percentage =
           RMul(RDiv(NetRentalIncome, AnalysisData.purchase_price), Num(100))
    /\ ret.cash_flow.annual_cash_flow = AnnualCashFlow
    /\ ret.cash_flow.monthly_cash_flow = RDiv(AnnualCashFlow, Num(12))
    /\ RLe(RSub(IncomeUsed, ExpensesUsed), Zero) =>
           ret.break_even = [break_even_years |-> None,
                             message |-> NegativeCashFlowMessage]

\* The recommendation for an analysis was returned.
RecommendationReturned ==
    /\ ~Raised(ret)
    /\ {"score", "overall_recommendation"} \subseteq DOMAIN ret

\* C17 as stated: for a positive price and any holding period of at least
\* one year, comprehensive_analysis and investment_recommendation return
\* without raising when the cash flow or the net yield is negative or the
\* break-even is null, and the result carries the negative values as
\* computed.
C17_AnyHoldingPeriod ==
    /\ AnalysisInDomain => OutcomesReported
    /\ RecommendedAnalysis => RecommendationReturned

\* C17, amended: the same for a holding period of 1 to 50 years.
C17_NegativeOutcomesAreData ==
    /\ AnalysisInRange => OutcomesReported
    /\ RecommendedAnalysis => RecommendationReturned

\* A recommendation was returned for an analysis whose cash flow and net
\* yield are negative and whose break-even is null.
C17_Witness ==
    /\ RecommendedAnalysis
    /\ Len(call.args.analysis.appreciation.appreciation_schedule) >= 1
    /\ RLt(call.args.analysis.cash_flow.annual_cash_flow, Zero)
    /\ RLt(call.args.analysis.rental_yield.net_yield_percentage, Zero)
    /\ RLt(call.args.analysis.rental_yield.net_annual_income, Zero)
    /\ call.args.analysis.break_even.break_even_years = None
    /\ ~Raised(ret)
    /\ ret.score = 0

\* The calculations that take the purchase price as an argument.
PriceOperations ==
    {"calculate_roi", "calculate_rental_yield", "calculate_appreciation",
     "calculate_cash_flow", "calculate_cap_rate", "calculate_break_even_point"}

\* The number of years of the call, 0 for a call that takes none.
YearsOfCall ==
    IF call.op = "calculate_roi" THEN call.args.holding_period_years
    ELSE IF call.op = "calculate_appreciation" THEN call.args.years
    ELSE IF call.op = "comprehensive_analysis" THEN YearsUsed
    ELSE 0

\* An engine operation was called with a price of 0 (comprehensive_analysis)
\* or with a positive price (all of them).
ZeroPriceAnalysis ==
    call.op = "comprehensive_analysis" /\ AnalysisData.purchase_price = Zero

PositivePriceCall ==
    \/ call.op \in PriceOperations /\ RGt(call.args.purchase_price, Zero)
    \/ AnalysisCalled

\* comprehensive_analysis on a price of 0 ended in a ZeroDivisionError; on a
\* positive price nothing raised, in the call or in a sub-result.
RaisedOnlyOnZeroPrice ==
    /\ ZeroPriceAnalysis => ret = ZeroDivisionError
    /\ PositivePriceCall => ~Raised(ret)
    /\ AnalysisCalled => \A k \in SubResults : ~Raised(ret[k])
    /\ RecommendedAnalysis => ~Raised(ret)

\* A call that takes a number of years was given at least one year.
YearsInDomain ==
    call.op \in {"calculate_roi", "calculate_appreciation", "comprehensive_analysis"}
        => YearsOfCall >= 1

\* C18 as stated: with any holding period of at least one year,
\* comprehensive_analysis on a price of 0 ends in a ZeroDivisionError and
\* returns nothing, and on a positive price no engine operation raises.
C18_AnyHoldingPeriod == YearsInDomain => RaisedOnlyOnZeroPrice

\* C18, amended: the same with a holding period of 1 to 50 years.
C18_ErrorsOnlyOnZeroPrice ==
    (YearsInDomain /\ YearsOfCall <= MaxHoldingPeriod) => RaisedOnlyOnZeroPrice

\* comprehensive_analysis was called with a price of 0, the other three keys
\* given, and ended in the error.
C18_Witness ==
    /\ ZeroPriceAnalysis
    /\ {"annual_rental_income", "operating_expenses", "holding_period_years"}
           \subseteq DOMAIN AnalysisData
    /\ AnalysisData.holding_period_years >= 1
    /\ AnalysisData.holding_period_years <= MaxHoldingPeriod
    /\ ret = ZeroDivisionError
    /\ "roi" \notin DOMAIN ret

CashFlowCalled ==
    /\ call.op = "calculate_cash_flow"
    /\ RGt(call.args.purchase_price, Zero)

\* mortgage_payment + property_tax + insurance of the call.
OtherExpenses ==
    RAdd(RAdd(call.args.mortgage_payment, call.args.property_tax),
         call.args.insurance)

DefaultMaintenance == RMul(call.args.purchase_price, self.default_maintenance_rate)

\* C19: calculate_cash_flow with maintenance = 0 returns what it returns
\* with maintenance = purchase_price * maintenance rate; a maintenance other
\* than 0 enters the expenses as given.
C19_ZeroMaintenanceSentinel ==
    CashFlowCalled =>
        /\ call.args.maintenance = Zero =>
              /\ ret.total_annual_expenses = RAdd(OtherExpenses, DefaultMaintenance)
              /\ ret = calculate_cash_flow(self, call.args.purchase_price,
                           call.args.annual_rental_income,
                           call.args.mortgage_payment, call.args.property_tax,
                           call.args.insurance, DefaultMaintenance)
        /\ call.args.maintenance # Zero =>
              ret.total_annual_expenses = RAdd(OtherExpenses, call.args.maintenance)
        /\ ret.annual_cash_flow =
               RSub(ret.effective_rental_income, ret.total_annual_expenses)

\* A call with maintenance 0 and no other expense reported the default
\* maintenance as its expenses.
C19_Witness ==
    /\ CashFlowCalled
    /\ call.args.maintenance = Zero
    /\ OtherExpenses = Zero
    /\ RGt(ret.total_annual_expenses, Zero)
    /\ ret.total_annual_expenses = DefaultMaintenance

CapRateCalled ==
    /\ call.op = "calculate_cap_rate"
    /\ RGt(call.args.purchase_price, Zero)

\* The operating expenses calculate_cap_rate is to work with.
CapRateExpenses ==
    IF call.args.operating_expenses = None
    THEN RMul(call.args.purchase_price,
              RAdd(self.default_maintenance_rate, self.default_vacancy_rate))
    ELSE call.args.operating_expenses[1]

\* C20: calculate_cap_rate replaces operating_expenses by purchase_price *
\* (maintenance rate + vacancy rate) only when it is None; an explicit 0 is
\* kept, net_operating_income = annual_rental_income - operating_expenses and
\* cap_rate_percentage = net_operating_income / purchase_price * 100.
C20_CapRateDefaultOnlyOnNone ==
    CapRateCalled =>
        /\ ret.operating_expenses = CapRateExpenses
        /\ ret.net_operating_income =
               RSub(call.args.annual_rental_income, CapRateExpenses)
        /\ ret.cap_rate_percentage =
               RMul(RDiv(ret.net_operating_income, call.args.purchase_price),
                    Num(100))
        /\ call.args.operating_expenses = Some(Zero) =>
               ret.net_operating_income = call.args.annual_rental_income

\* Explicit operating expenses of 0 left the whole rental income as net
\* operating income.
C20_Witness ==
    /\ CapRateCalled
    /\ call.args.operating_expenses = Some(Zero)
    /\ RGt(call.args.annual_rental_income, Zero)
    /\ ret.operating_expenses = Zero
    /\ ret.net_operating_income = call.args.annual_rental_income

----------------------------------------------------------------------------
(* Properties of POST /analyze *)

\* POST /analyze was served while the analytics component was available.
AnalyzeServed ==
    /\ call.op = "POST /analyze"
    /\ call.args.analytics # None

ResponseFieldNames ==
    {"roi", "rental_yield", "cap_rate", "cash_flow_monthly", "cash_flow_annual",
     "total_return", "appreciation_value", "total_rental_income",
     "total_expenses", "net_profit", "investment_grade", "recommendation"}

\* C14: with the analytics component available, POST /analyze with a valid
\* body answers with status 200 and a body of the twelve fields, not with
\* status 500.
C14_AnalyzeSucceeds ==
    AnalyzeServed =>
        /\ ret.status_code = 200
        /\ ret.status_code # 500
        /\ "body" \in DOMAIN ret
        /\ DOMAIN ret.body = ResponseFieldNames

\* The analysis the handler of the request computed.
RequestAnalysis ==
    CHOOSE result \in analysis_of_request(call.args.analytics[1],
                                          call.args.investment_input) : TRUE

\* C15: the annual_rental_income the engine computes with for POST /analyze
\* is 12 times the request's monthly_rental_income (which every valid body
\* carries), not the default of 5% of the purchase price.
C15_AnnualIncomeFromMonthly ==
    AnalyzeServed =>
        /\ ~Raised(RequestAnalysis)
        /\ RequestAnalysis.rental_yield.annual_rental_income =
               RMul(call.args.investment_input.monthly_rental_income, Num(12))
        /\ RequestAnalysis.roi.total_rental_income =
               RMul(RMul(call.args.investment_input.monthly_rental_income, Num(12)),
                    Num(call.args.investment_input.holding_period_years))

----------------------------------------------------------------------------
(* Properties of concurrent calls *)

Returned(t) == threads[t].pc = "returned"

\* C12: no operation changes the three rates fixed at construction or adds
\* to the engine's state, and under every interleaving each call returns
\* what it returns alone on the engine as constructed.
C12_NoSharedStateMutation ==
    /\ self = [default_appreciation_rate |-> R(4, 100),
               default_vacancy_rate      |-> R(5, 100),
               default_maintenance_rate  |-> R(1, 100)]
    /\ \A t \in Threads :
          Returned(t) => threads[t].ret \in Apply(InvestmentAnalytics, threads[t].call)

\* A calculate_roi returned while another thread was inside
\* calculate_appreciation with an explicit rate, and a
\* calculate_appreciation with an explicit rate returned used that rate.
C12_Witness ==
    \E t, u \in Threads :
        /\ t # u
        /\ Returned(t)
        /\ threads[t].call.op = "calculate_roi"
        /\ \E c \in threads[t].overlapped :
              /\ c.op = "calculate_appreciation"
              /\ c.args.appreciation_rate = Some(R(1, 10))
        /\ threads[t].ret.future_property_value =
               RMul(Num(500000), RPow(R(104, 100), 5))
        /\ Returned(u)
        /\ threads[u].call.op = "calculate_appreciation"
        /\ threads[u].call.args.appreciation_rate = Some(R(1, 10))
        /\ threads[u].ret.final_value = Num(302500)

\* C11: two calls of comprehensive_analysis with the same argument return
\* the same result, whatever was called on the engine between them.
C11_Deterministic ==
    \A t, u \in Threads :
        (/\ Returned(t) /\ Returned(u)
         /\ threads[t].call.op = "comprehensive_analysis"
         /\ threads[u].call = threads[t].call)
            => threads[u].ret = threads[t].ret

\* Two threads hold the result of the same comprehensive_analysis; when the
\* first returned, the second was still inside a calculate_appreciation with
\* an explicit rate, which it finished before it made its own call.
C11_Witness ==
    \E t, u \in Threads :
        /\ t # u
        /\ Returned(t) /\ Returned(u)
        /\ threads[t].call.op = "comprehensive_analysis"
        /\ threads[u].call = threads[t].call
        /\ \E c \in threads[t].overlapped :
              /\ c.op = "calculate_appreciation"
              /\ c.args.appreciation_rate # None
        /\ ~Raised(threads[t].ret)
        /\ threads[u].ret = threads[t].ret

----------------------------------------------------------------------------
(* Further properties of calculate_cash_flow and comprehensive_analysis *)

\* The maintenance calculate_cash_flow works with (see C19).
MaintenanceUsed ==
    IF call.args.maintenance = Zero THEN DefaultMaintenance ELSE call.args.maintenance

\* C22: calculate_cash_flow returns effective_rental_income =
\* annual_rental_income * (1 - vacancy rate), total_annual_expenses =
\* mortgage_payment + property_tax + insurance + maintenance,
\* annual_cash_flow = their difference, monthly_cash_flow * 12 =
\* annual_cash_flow and cash_on_cash_return = annual_cash_flow /
\* purchase_price * 100, relative to the whole price.
C22_CashFlowFormulas ==
    CashFlowCalled =>
        /\ ret.effective_rental_income =
               RMul(call.args.annual_rental_income,
                    RSub(Num(1), self.default_vacancy_rate))
        /\ ret.total_annual_expenses = RAdd(OtherExpenses, MaintenanceUsed)
        /\ ret.annual_cash_flow =
               RSub(RMul(call.args.annual_rental_income,
                         RSub(Num(1), self.default_vacancy_rate)),
                    RAdd(OtherExpenses, MaintenanceUsed))
        /\ RMul(ret.monthly_cash_flow, Num(12)) = ret.annual_cash_flow
        /\ ret.cash_on_cash_return =
               RMul(RDiv(ret.annual_cash_flow, call.args.purchase_price), Num(100))

\* Rent 5000 on a price of 250000 with a mortgage payment of 50, tax 8,
\* insurance 5 and maintenance 8: 4750 - 71 = 4679 a year, 1.8716% of the
\* price.
C22_Witness ==
    /\ CashFlowCalled
    /\ call.args.purchase_price = Num(250000)
    /\ call.args.annual_rental_income = Num(5000)
    /\ call.args.mortgage_payment = Num(50)
    /\ call.args.property_tax = Num(8)
    /\ call.args.insurance = Num(5)
    /\ call.args.maintenance = Num(8)
    /\ ret.effective_rental_income = Num(4750)
    /\ ret.total_annual_expenses = Num(71)
    /\ ret.annual_cash_flow = Num(4679)
    /\ ret.monthly_cash_flow = R(4679, 12)
    /\ ret.cash_on_cash_return = R(4679, 2500)

\* comprehensive_analysis returned an analysis of a property with a positive
\* price.
AnalysisReturned == AnalysisCalled /\ ~Raised(ret)

\* The results for the same property with any other operating expenses,
\* given or omitted.
ExpensesVariants ==
    LET rest == Restrict(AnalysisData, DOMAIN AnalysisData \ {"operating_expenses"})
    IN  UNION {comprehensive_analysis(self, d)
                 : d \in {rest} \cup {[operating_expenses |-> e] @@ rest : e \in Amounts}}

\* C23: in every result of comprehensive_analysis the cap rate equals the
\* net yield and the cap rate's operating expenses are purchase_price *
\* (maintenance rate + vacancy rate); the caller's operating_expenses reaches
\* roi and break_even only, never cap_rate, rental_yield or cash_flow.
C23_ExpensesReachRoiAndBreakEvenOnly ==
    AnalysisReturned =>
        /\ ret.cap_rate.cap_rate_percentage = ret.rental_yield.net_yield_percentage
        /\ ret.cap_rate.operating_expenses =
               RMul(AnalysisData.purchase_price,
                    RAdd(self.default_maintenance_rate, self.default_vacancy_rate))
        /\ \A other \in ExpensesVariants :
              /\ other.cap_rate = ret.cap_rate
              /\ other.rental_yield = ret.rental_yield
              /\ other.cash_flow = ret.cash_flow

\* Operating expenses of 8000 on a price of 500000 were given; the cap rate
\* worked with 30000, while roi and break_even worked with the 8000.
C23_Witness ==
    /\ AnalysisReturned
    /\ AnalysisData.purchase_price = Num(500000)
    /\ "operating_expenses" \in DOMAIN AnalysisData
    /\ AnalysisData.operating_expenses = Num(8000)
    /\ "annual_rental_income" \in DOMAIN AnalysisData
    /\ AnalysisData.annual_rental_income = Num(30000)
    /\ YearsUsed = 5
    /\ ret.cap_rate.operating_expenses = Num(30000)
    /\ ret.cap_rate.cap_rate_percentage = Zero
    /\ ret.roi.total_expenses = Num(40000)
    /\ ret.break_even.annual_net_income = Num(22000)

\* C24: in every result of comprehensive_analysis for a holding period of at
\* least one year, the future value of roi (a power) equals the final value
\* of appreciation (compounded year by year), and roi.net_profit =
\* appreciation.total_appreciation + (total_rental_income - total_expenses).
C24_PowerEqualsCompounding ==
    (AnalysisReturned /\ YearsUsed >= 1) =>
        /\ ret.roi.future_property_value = ret.appreciation.final_value
        /\ ret.roi.future_property_value =
               RMul(AnalysisData.purchase_price,
                    RPow(RAdd(Num(1), self.default_appreciation_rate), YearsUsed))
        /\ ret.appreciation.final_value =
               ret.appreciation.appreciation_schedule[YearsUsed].property_value
        /\ ret.roi.net_profit =
               RAdd(ret.appreciation.total_appreciation,
                    RSub(ret.roi.total_rental_income, ret.roi.total_expenses))

\* Three years on a price of 250000: both computations give 281216.
C24_Witness ==
    /\ AnalysisReturned
    /\ AnalysisData.purchase_price = Num(250000)
    /\ YearsUsed = 3
    /\ "holding_period_years" \in DOMAIN AnalysisData
    /\ ret.roi.future_property_value = Num(281216)
    /\ ret.appreciation.final_value = Num(281216)
    /\ Len(ret.appreciation.appreciation_schedule) = 3

----------------------------------------------------------------------------
(* Properties of the model manager and its endpoints *)

\* The manager before the call was ready: loaded, and with models.
WasReady == call.before.models_loaded /\ call.before.models # None

ReadinessChecked == call.op = "GET /ready"

GatedCalled == call.op \in {"POST /predict", "POST /explain"}

\* C25: GET /ready answers 503 exactly when the manager is not both loaded
\* and holding models, and POST /predict and POST /explain answer 503 in
\* exactly those states, without having used a component of the manager.
C25_ReadinessGating ==
    /\ ReadinessChecked => (ret.status_code = 503 <=> ~WasReady)
    /\ GatedCalled =>
        /\ ret.response.status_code = 503 <=> ~WasReady
        /\ ~WasReady => ret.read = {}

\* POST /predict was refused while the manager held models of a load that
\* had failed later on.
C25_Witness ==
    /\ call.op = "POST /predict"
    /\ call.before.models # None
    /\ ~call.before.models_loaded
    /\ ret.response.status_code = 503
    /\ ret.read = {}

\* A call of load_all_models, directly, through reload_models or by the
\* startup, and a request to reload.
LoadCalled == call.op \in {"load_all_models", "reload_models"}

StartupCalled == call.op = "startup"

ReloadRequested == call.op = "POST /admin/reload"

AllowStartupWithoutModels == call.before.allow_startup_without_models

\* A step of the load of the call failed: the load ended in its except
\* clause, which leaves an error, and not at its end, which clears it.
LoadFailed ==
    /\ LoadCalled \/ StartupCalled \/ ReloadRequested
    /\ model_manager.load_error # None

\* The exception the load of the call ended with: what the same load
\* raises from a manager whose flag is false.
FailureOfLoad ==
    LET strict == [call.before EXCEPT !.allow_startup_without_models = FALSE]
    IN  IF call.op \in {"load_all_models", "startup"}
        THEN load_all_models(strict, call.args.files).result
        ELSE reload_models(strict, call.args.files).result

\* C27: a load that fails leaves its failure text in load_error and
\* models_loaded false.  With the flag true the call returns False, the
\* startup completes and POST /admin/reload answers "partial_success";
\* with the flag false the exception reaches the caller: the startup
\* fails with it and POST /admin/reload answers 500.
C27_LoadFailure ==
    LoadFailed =>
        /\ Raised(FailureOfLoad)
        /\ model_manager.load_error = Some(Str(FailureOfLoad))
        /\ ~model_manager.models_loaded
        /\ LoadCalled =>
            ret = IF AllowStartupWithoutModels THEN Returns("False") ELSE FailureOfLoad
        /\ StartupCalled =>
            ret = IF AllowStartupWithoutModels THEN NoResult ELSE FailureOfLoad
        /\ ReloadRequested =>
            IF AllowStartupWithoutModels
            THEN /\ ret.status_code = 200
                 /\ ret.body.status = "partial_success"
                 /\ ret.body.error = model_manager.load_error
            ELSE ret = HTTPException(500, <<"Failed to reload models: ">>
                                          \o Str(FailureOfLoad))

\* With the flag false and no model directory, POST /admin/reload
\* answered 500 with the text of the failure.
C27_Witness ==
    /\ ReloadRequested
    /\ ~AllowStartupWithoutModels
    /\ ~call.args.files.path_exists
    /\ ret = HTTPException(500, <<"Failed to reload models: ",
                                  "Model path not found: ", "models/saved_models">>)
    /\ model_manager.load_error = Some(<<"Model path not found: ", "models/saved_models">>)
    /\ ~model_manager.models_loaded

\* No load completes: in every state what load_all_models sets after its
\* explainability step is as __init__ left it.
NoLoadCompletes ==
    /\ ~model_manager.models_loaded
    /\ model_manager.explainability = None
    /\ model_manager.chatbot = None
    /\ model_manager.last_loaded = None
    /\ call.op \in {"load_all_models", "reload_models"} => ret # Returns("True")

\* The load of the call got past its analytics step: the directory was
\* complete, preprocessor.pkl was a pickle and the model files were read.
PastAnalyticsStep ==
    /\ LoadCalled \/ StartupCalled \/ ReloadRequested
    /\ call.args.files.path_exists
    /\ Range(required_files) \subseteq Range(call.args.files.listdir)
    /\ ~Raised(call.args.files.preprocessor_pkl)
    /\ call.args.files.local_model_path.ends_with_separator

\* C29: the components are set in the order preprocessor, models,
\* analytics, explainability, so in every state a later one is only there
\* when the earlier ones are; and a load that fails after its analytics
\* step leaves the analytics in place and models_loaded false, so that
\* POST /analyze is not refused with 503 while GET /ready is.
C29_PopulationOrder ==
    /\ model_manager.explainability # None => model_manager.analytics # None
    /\ model_manager.analytics # None => model_manager.models # None
    /\ model_manager.models # None => model_manager.preprocessor # None
    /\ LoadFailed /\ PastAnalyticsStep =>
        /\ model_manager.analytics # None
        /\ ~model_manager.models_loaded
        /\ readiness_check(model_manager).status_code = 503
    /\ call.op = "POST /analyze" =>
        (ret.status_code = 503 <=> call.before.analytics = None)

\* After a load that failed at its explainability step, for want of a
\* best model, POST /analyze was not refused while GET /ready would be.
C29_Witness ==
    /\ call.op = "POST /analyze"
    /\ model_manager.load_error = Some(<<"None">>)
    /\ model_manager.analytics = Some(InvestmentAnalytics)
    /\ model_manager.explainability = None
    /\ ~model_manager.models_loaded
    /\ ret.status_code # 503
    /\ readiness_check(model_manager).status_code = 503

\* A reload, called directly or requested, that failed, of a manager that
\* held the metadata of an earlier load.
ReloadCalled == call.op \in {"reload_models", "POST /admin/reload"}

FailedReload ==
    /\ ReloadCalled
    /\ LoadFailed
    /\ call.before.metadata # None

\* The load of the call found the required files.
RequiredFilesFound ==
    /\ call.args.files.path_exists
    /\ Range(required_files) \subseteq Range(call.args.files.listdir)

\* What the manager keeps of the load before the reload, as the endpoints
\* show it: not ready, the same answer of /models/info, and the same
\* last_loaded and chatbot in /models/status.
ServesPreviousLoad ==
    /\ readiness_check(model_manager).status_code = 503
    /\ model_manager.metadata = call.before.metadata
    /\ model_info(model_manager) = model_info(call.before)
    /\ get_status(model_manager).last_loaded = get_status(call.before).last_loaded
    /\ get_status(model_manager).chatbot_available
         = get_status(call.before).chatbot_available

----------------------------------------------------------------------------
(* calculate_rental_yield, in exact arithmetic and on floats *)

RentalYieldInFloatsCalled ==
    call.op = "calculate_rental_yield in floats" /\ ~Raised(ret)

PriceInFloats == FOfRational(call.args.purchase_price)

IncomeInFloats == FOfRational(call.args.annual_rental_income)

\* The exact values of the four formulas for the arguments of the call.
ExactRentalYield ==
    calculate_rental_yield(self, call.args.purchase_price,
                           call.args.annual_rental_income)

YieldFields ==
    {"gross_yield_percentage", "annual_expenses", "net_annual_income",
     "net_yield_percentage"}

\* A price of 500000 and an income of 30000, with the default rates.
Scenario2 ==
    /\ RentalYieldInFloatsCalled
    /\ call.args.purchase_price = Num(500000)
    /\ call.args.annual_rental_income = Num(30000)

\* C21 as claimed: the four values returned are the values of their
\* formulas, and for the price 500000 and the income 30000 they are
\* 30000, 0, 0 and 6.  It fails on floats: 0.01 + 0.05 is not 0.06 there.
C21_RentalYieldExact ==
    /\ RentalYieldInFloatsCalled =>
        \A field \in YieldFields : FIsRational(ret[field], ExactRentalYield[field])
    /\ Scenario2 =>
        /\ ret.annual_expenses = FOfNat(30000)
        /\ ret.net_annual_income = FZero
        /\ ret.net_yield_percentage = FZero
        /\ ret.gross_yield_percentage = FOfNat(6)

\* C21, amended: the four values returned are their formulas computed on
\* doubles, each operation rounded, and so within rounding of the exact
\* values (here within 2^-30); for the price 500000 and the income 30000
\* the expenses are 30000 + 2^-38, the net income is -2^-38, the net yield
\* is that income over the price times 100, and the gross yield is 6.
C21_RentalYieldInFloats ==
    /\ RentalYieldInFloatsCalled =>
        /\ ret.gross_yield_percentage
             = FMul(FDiv(IncomeInFloats, PriceInFloats), FOfNat(100))
        /\ ret.annual_expenses
             = FMul(PriceInFloats, FAdd(FOfRational(R(1, 100)), FOfRational(R(5, 100))))
        /\ ret.net_annual_income = FSub(IncomeInFloats, ret.annual_expenses)
        /\ ret.net_yield_percentage
             = FMul(FDiv(ret.net_annual_income, PriceInFloats), FOfNat(100))
        /\ \A field \in YieldFields : FNear(ret[field], ExactRentalYield[field], 30)
    /\ Scenario2 =>
        /\ ret.annual_expenses = FAdd(FOfNat(30000), FPow2(-38))
        /\ ret.net_annual_income = FNeg(FPow2(-38))
        /\ ret.net_yield_percentage
             = FMul(FDiv(FNeg(FPow2(-38)), FOfNat(500000)), FOfNat(100))
        /\ ret.gross_yield_percentage = FOfNat(6)

\* The call with the price 500000 and the income 30000 returned expenses
\* just above 30000 and a net income and a net yield just below zero.
C21_Witness ==
    /\ Scenario2
    /\ ret.annual_expenses = FAdd(FOfNat(30000), FPow2(-38))
    /\ ~FIsRational(ret.annual_expenses, Num(30000))
    /\ ret.net_annual_income = FNeg(FPow2(-38))
    /\ ret.net_yield_percentage.sign = 1
    /\ ret.net_yield_percentage.m # <<>>
    /\ ret.gross_yield_percentage = FOfNat(6)

====
